---------------------------- MODULE Spec2Model ----------------------------
(***************************************************************************)
(* A model of CalebBell/mathopt: the addition-chain tables and the exact   *)
(* and heuristic multi-power solvers (mathopt/addition_chain.py), and the  *)
(* expression-rewriting pipeline (mathopt/optimize_terms.py).              *)
(***************************************************************************)
EXTENDS Integers, Sequences, FiniteSets, TLC

(***************************************************************************)
(* Bounds of the model.                                                    *)
(***************************************************************************)
\* largest exponent drawn for the enumerated power lists
MaxPower == 7
\* longest enumerated power list
MaxLen == 3
\* largest small_chain_length drawn for the enumerated power lists
MaxSmall == 2
\* addition_chain_length is compared with a search for chains on 1..MaxN
MaxN == 12
\* the exponents drawn for the expressions run from -MaxQuarter/4 to MaxQuarter/4
MaxQuarter == 10
\* most terms of a sum drawn for the expressions
MaxTerms == 2

(***************************************************************************)
(* Helpers on sequences (Python lists).                                    *)
(***************************************************************************)
Range(s) == {s[i] : i \in DOMAIN s}

\* the set of elements of the lists of a list of lists
Elements(ls) == UNION {Range(ls[i]) : i \in DOMAIN ls}

\* Python's comparison a < b of two lists of integers
RECURSIVE ListLess(_, _)
ListLess(a, b) ==
  IF a = <<>> THEN b # <<>>
  ELSE IF b = <<>> THEN FALSE
  ELSE IF Head(a) # Head(b) THEN Head(a) < Head(b)
  ELSE ListLess(Tail(a), Tail(b))

\* sorted(s) for a list of integers
RECURSIVE InsertInt(_, _)
InsertInt(x, s) ==
  IF s = <<>> THEN <<x>>
  ELSE IF x < Head(s) THEN <<x>> \o s
  ELSE <<Head(s)>> \o InsertInt(x, Tail(s))

RECURSIVE SortedInts(_)
SortedInts(s) ==
  IF s = <<>> THEN <<>>
  ELSE InsertInt(s[Len(s)], SortedInts(SubSeq(s, 1, Len(s) - 1)))

(***************************************************************************)
(* mathopt/addition_chain.py: the two tables.                              *)
(***************************************************************************)
\* shortest_path_costs[n] for n = 1..323, the dictionary of the source
shortest_path_costs ==
  <<
    1, 2, 3, 3, 4, 4, 5, 4, 5, 5, 6, 5, 6, 6, 6, 5, 6, 6, 7, 6,
    7, 7, 7, 6, 7, 7, 7, 7, 8, 7, 8, 6, 7, 7, 8, 7, 8, 8, 8, 7,
    8, 8, 8, 8, 8, 8, 9, 7, 8, 8, 8, 8, 9, 8, 9, 8, 9, 9, 9, 8,
    9, 9, 9, 7, 8, 8, 9, 8, 9, 9, 10, 8, 9, 9, 9, 9, 9, 9, 10, 8,
    9, 9, 9, 9, 9, 9, 10, 9, 10, 9, 10, 9, 10, 10, 10, 8, 9, 9, 9, 9,
    10, 9, 10, 9, 10, 10, 10, 9, 10, 10, 10, 9, 10, 10, 10, 10, 10, 10, 10, 9,
    10, 10, 10, 10, 10, 10, 11, 8, 9, 9, 10, 9, 10, 10, 10, 9, 10, 10, 11, 10,
    11, 11, 11, 9, 10, 10, 10, 10, 10, 10, 11, 10, 10, 10, 11, 10, 11, 11, 11, 9,
    10, 10, 10, 10, 10, 10, 11, 10, 11, 10, 11, 10, 11, 11, 11, 10, 11, 11, 11, 10,
    11, 11, 11, 10, 11, 11, 11, 11, 11, 11, 12, 9, 10, 10, 10, 10, 11, 10, 11, 10,
    11, 11, 11, 10, 11, 11, 11, 10, 11, 11, 11, 11, 11, 11, 11, 10, 11, 11, 11, 11,
    11, 11, 12, 10, 11, 11, 11, 11, 11, 11, 11, 11, 11, 11, 12, 11, 12, 11, 12, 10,
    11, 11, 11, 11, 11, 11, 12, 11, 11, 11, 12, 11, 12, 12, 11, 9, 10, 10, 11, 10,
    11, 11, 12, 10, 11, 11, 12, 11, 12, 11, 12, 10, 11, 11, 12, 11, 12, 12, 12, 11,
    11, 12, 12, 12, 12, 12, 12, 10, 11, 11, 11, 11, 11, 11, 12, 11, 11, 11, 12, 11,
    12, 12, 12, 11, 12, 11, 12, 11, 12, 12, 12, 11, 12, 12, 12, 12, 12, 12, 12, 10,
    11, 11, 11
  >>

\* The files of David_Wilson_powers are not part of the sources.  The data is
\* reproduced from its description: for each exponent n the minimal addition
\* chains of n without the leading 1, every element the sum of its predecessor
\* and an earlier element, in lexicographic order.  The exponents used by the
\* tests and docstrings, and the small ones, are tabulated here.
TabulatedKeys == (2..20) \cup {24, 29, 30, 100}

tabulated_addition_chains ==
  (2 :> <<<<2>>>>)
  @@ (3 :> <<<<2, 3>>>>)
  @@ (4 :> <<<<2, 4>>>>)
  @@ (5 :> <<<<2, 3, 5>>, <<2, 4, 5>>>>)
  @@ (6 :> <<<<2, 3, 6>>, <<2, 4, 6>>>>)
  @@ (7 :> <<<<2, 3, 4, 7>>, <<2, 3, 5, 7>>, <<2, 3, 6, 7>>, <<2, 4, 5, 7>>, <<2, 4, 6, 7>>>>)
  @@ (8 :> <<<<2, 4, 8>>>>)
  @@ (9 :> <<<<2, 3, 6, 9>>, <<2, 4, 5, 9>>, <<2, 4, 8, 9>>>>)
  @@ (10 :> <<<<2, 3, 5, 10>>, <<2, 4, 5, 10>>, <<2, 4, 6, 10>>, <<2, 4, 8, 10>>>>)
  @@ (11 :> <<<<2, 3, 4, 7, 11>>, <<2, 3, 4, 8, 11>>, <<2, 3, 5, 6, 11>>, <<2, 3, 5, 8, 11>>,
          <<2, 3, 5, 10, 11>>, <<2, 3, 6, 8, 11>>, <<2, 3, 6, 9, 11>>, <<2, 4, 5, 6, 11>>,
          <<2, 4, 5, 7, 11>>, <<2, 4, 5, 9, 11>>, <<2, 4, 5, 10, 11>>, <<2, 4, 6, 7, 11>>,
          <<2, 4, 6, 10, 11>>, <<2, 4, 8, 9, 11>>, <<2, 4, 8, 10, 11>>>>)
  @@ (12 :> <<<<2, 3, 6, 12>>, <<2, 4, 6, 12>>, <<2, 4, 8, 12>>>>)
  @@ (13 :> <<<<2, 3, 5, 8, 13>>, <<2, 3, 5, 10, 13>>, <<2, 3, 6, 7, 13>>, <<2, 3, 6, 12, 13>>,
          <<2, 4, 5, 9, 13>>, <<2, 4, 6, 7, 13>>, <<2, 4, 6, 12, 13>>, <<2, 4, 8, 9, 13>>,
          <<2, 4, 8, 12, 13>>>>)
  @@ (14 :> <<<<2, 3, 4, 7, 14>>, <<2, 3, 5, 7, 14>>, <<2, 3, 6, 7, 14>>, <<2, 3, 6, 8, 14>>,
          <<2, 3, 6, 12, 14>>, <<2, 4, 5, 7, 14>>, <<2, 4, 5, 9, 14>>, <<2, 4, 5, 10, 14>>,
          <<2, 4, 6, 7, 14>>, <<2, 4, 6, 8, 14>>, <<2, 4, 6, 10, 14>>, <<2, 4, 6, 12, 14>>,
          <<2, 4, 8, 10, 14>>, <<2, 4, 8, 12, 14>>>>)
  @@ (15 :> <<<<2, 3, 5, 10, 15>>, <<2, 3, 6, 9, 15>>, <<2, 3, 6, 12, 15>>, <<2, 4, 5, 10, 15>>>>)
  @@ (16 :> <<<<2, 4, 8, 16>>>>)
  @@ (17 :> <<<<2, 4, 8, 9, 17>>, <<2, 4, 8, 16, 17>>>>)
  @@ (18 :> <<<<2, 3, 6, 9, 18>>, <<2, 3, 6, 12, 18>>, <<2, 4, 5, 9, 18>>, <<2, 4, 6, 12, 18>>,
          <<2, 4, 8, 9, 18>>, <<2, 4, 8, 10, 18>>, <<2, 4, 8, 16, 18>>>>)
  @@ (19 :> <<<<2, 3, 4, 8, 11, 19>>, <<2, 3, 4, 8, 16, 19>>, <<2, 3, 5, 7, 12, 19>>,
          <<2, 3, 5, 7, 14, 19>>, <<2, 3, 5, 8, 11, 19>>, <<2, 3, 5, 8, 16, 19>>,
          <<2, 3, 6, 7, 13, 19>>, <<2, 3, 6, 8, 11, 19>>, <<2, 3, 6, 8, 16, 19>>,
          <<2, 3, 6, 9, 10, 19>>, <<2, 3, 6, 9, 18, 19>>, <<2, 3, 6, 12, 13, 19>>,
          <<2, 3, 6, 12, 18, 19>>, <<2, 4, 5, 7, 12, 19>>, <<2, 4, 5, 7, 14, 19>>,
          <<2, 4, 5, 9, 10, 19>>, <<2, 4, 5, 9, 14, 19>>, <<2, 4, 5, 9, 18, 19>>,
          <<2, 4, 5, 10, 14, 19>>, <<2, 4, 5, 10, 15, 19>>, <<2, 4, 6, 7, 13, 19>>,
          <<2, 4, 6, 12, 13, 19>>, <<2, 4, 6, 12, 18, 19>>, <<2, 4, 8, 9, 10, 19>>,
          <<2, 4, 8, 9, 11, 19>>, <<2, 4, 8, 9, 17, 19>>, <<2, 4, 8, 9, 18, 19>>,
          <<2, 4, 8, 10, 11, 19>>, <<2, 4, 8, 10, 18, 19>>, <<2, 4, 8, 16, 17, 19>>,
          <<2, 4, 8, 16, 18, 19>>>>)
  @@ (20 :> <<<<2, 3, 5, 10, 20>>, <<2, 4, 5, 10, 20>>, <<2, 4, 6, 10, 20>>, <<2, 4, 8, 10, 20>>,
          <<2, 4, 8, 12, 20>>, <<2, 4, 8, 16, 20>>>>)
  @@ (24 :> <<<<2, 3, 6, 12, 24>>, <<2, 4, 6, 12, 24>>, <<2, 4, 8, 12, 24>>, <<2, 4, 8, 16, 24>>>>)
  @@ (29 :> <<<<2, 3, 4, 7, 11, 18, 29>>, <<2, 3, 4, 7, 11, 22, 29>>, <<2, 3, 4, 7, 14, 15, 29>>,
          <<2, 3, 4, 7, 14, 28, 29>>, <<2, 3, 5, 6, 12, 17, 29>>, <<2, 3, 5, 6, 12, 24, 29>>,
          <<2, 3, 5, 7, 12, 17, 29>>, <<2, 3, 5, 7, 12, 24, 29>>, <<2, 3, 5, 7, 14, 15, 29>>,
          <<2, 3, 5, 7, 14, 28, 29>>, <<2, 3, 5, 8, 13, 16, 29>>, <<2, 3, 5, 8, 13, 21, 29>>,
          <<2, 3, 5, 8, 13, 26, 29>>, <<2, 3, 5, 8, 16, 21, 29>>, <<2, 3, 5, 8, 16, 24, 29>>,
          <<2, 3, 5, 10, 12, 17, 29>>, <<2, 3, 5, 10, 12, 24, 29>>, <<2, 3, 5, 10, 13, 16, 29>>,
          <<2, 3, 5, 10, 13, 26, 29>>, <<2, 3, 6, 7, 13, 16, 29>>, <<2, 3, 6, 7, 13, 26, 29>>,
          <<2, 3, 6, 7, 14, 15, 29>>, <<2, 3, 6, 7, 14, 28, 29>>, <<2, 3, 6, 8, 14, 15, 29>>,
          <<2, 3, 6, 8, 14, 28, 29>>, <<2, 3, 6, 9, 10, 19, 29>>, <<2, 3, 6, 9, 10, 20, 29>>,
          <<2, 3, 6, 9, 11, 20, 29>>, <<2, 3, 6, 9, 18, 20, 29>>, <<2, 3, 6, 9, 18, 27, 29>>,
          <<2, 3, 6, 12, 13, 16, 29>>, <<2, 3, 6, 12, 13, 26, 29>>, <<2, 3, 6, 12, 14, 15, 29>>,
          <<2, 3, 6, 12, 14, 17, 29>>, <<2, 3, 6, 12, 14, 26, 29>>, <<2, 3, 6, 12, 14, 28, 29>>,
          <<2, 3, 6, 12, 15, 17, 29>>, <<2, 3, 6, 12, 15, 27, 29>>, <<2, 3, 6, 12, 24, 26, 29>>,
          <<2, 3, 6, 12, 24, 27, 29>>, <<2, 4, 5, 6, 12, 17, 29>>, <<2, 4, 5, 6, 12, 24, 29>>,
          <<2, 4, 5, 7, 11, 18, 29>>, <<2, 4, 5, 7, 11, 22, 29>>, <<2, 4, 5, 7, 12, 17, 29>>,
          <<2, 4, 5, 7, 12, 24, 29>>, <<2, 4, 5, 7, 14, 15, 29>>, <<2, 4, 5, 7, 14, 28, 29>>,
          <<2, 4, 5, 9, 10, 19, 29>>, <<2, 4, 5, 9, 10, 20, 29>>, <<2, 4, 5, 9, 11, 20, 29>>,
          <<2, 4, 5, 9, 14, 15, 29>>, <<2, 4, 5, 9, 14, 28, 29>>, <<2, 4, 5, 9, 18, 20, 29>>,
          <<2, 4, 5, 9, 18, 27, 29>>, <<2, 4, 5, 10, 12, 17, 29>>, <<2, 4, 5, 10, 12, 24, 29>>,
          <<2, 4, 5, 10, 14, 15, 29>>, <<2, 4, 5, 10, 14, 19, 29>>, <<2, 4, 5, 10, 14, 24, 29>>,
          <<2, 4, 5, 10, 14, 28, 29>>, <<2, 4, 5, 10, 15, 19, 29>>, <<2, 4, 5, 10, 15, 25, 29>>,
          <<2, 4, 5, 10, 20, 24, 29>>, <<2, 4, 5, 10, 20, 25, 29>>, <<2, 4, 6, 7, 11, 18, 29>>,
          <<2, 4, 6, 7, 11, 22, 29>>, <<2, 4, 6, 7, 14, 15, 29>>, <<2, 4, 6, 7, 14, 28, 29>>,
          <<2, 4, 6, 8, 14, 15, 29>>, <<2, 4, 6, 8, 14, 28, 29>>, <<2, 4, 6, 10, 14, 15, 29>>,
          <<2, 4, 6, 10, 14, 28, 29>>, <<2, 4, 6, 12, 13, 17, 29>>, <<2, 4, 6, 12, 13, 25, 29>>,
          <<2, 4, 6, 12, 14, 15, 29>>, <<2, 4, 6, 12, 14, 28, 29>>, <<2, 4, 6, 12, 16, 17, 29>>,
          <<2, 4, 6, 12, 16, 28, 29>>, <<2, 4, 6, 12, 24, 25, 29>>, <<2, 4, 6, 12, 24, 28, 29>>,
          <<2, 4, 8, 9, 10, 19, 29>>, <<2, 4, 8, 9, 10, 20, 29>>, <<2, 4, 8, 9, 11, 20, 29>>,
          <<2, 4, 8, 9, 13, 21, 29>>, <<2, 4, 8, 9, 17, 21, 29>>, <<2, 4, 8, 9, 17, 25, 29>>,
          <<2, 4, 8, 9, 18, 20, 29>>, <<2, 4, 8, 9, 18, 27, 29>>, <<2, 4, 8, 10, 11, 19, 29>>,
          <<2, 4, 8, 10, 11, 21, 29>>, <<2, 4, 8, 10, 14, 15, 29>>, <<2, 4, 8, 10, 14, 28, 29>>,
          <<2, 4, 8, 10, 18, 19, 29>>, <<2, 4, 8, 10, 18, 28, 29>>, <<2, 4, 8, 10, 20, 21, 29>>,
          <<2, 4, 8, 10, 20, 28, 29>>, <<2, 4, 8, 12, 13, 17, 29>>, <<2, 4, 8, 12, 13, 21, 29>>,
          <<2, 4, 8, 12, 13, 25, 29>>, <<2, 4, 8, 12, 14, 15, 29>>, <<2, 4, 8, 12, 14, 28, 29>>,
          <<2, 4, 8, 12, 16, 17, 29>>, <<2, 4, 8, 12, 16, 28, 29>>, <<2, 4, 8, 12, 20, 21, 29>>,
          <<2, 4, 8, 12, 20, 28, 29>>, <<2, 4, 8, 12, 24, 25, 29>>, <<2, 4, 8, 12, 24, 28, 29>>,
          <<2, 4, 8, 16, 17, 21, 29>>, <<2, 4, 8, 16, 17, 25, 29>>, <<2, 4, 8, 16, 20, 21, 29>>,
          <<2, 4, 8, 16, 20, 28, 29>>, <<2, 4, 8, 16, 24, 25, 29>>, <<2, 4, 8, 16, 24, 28, 29>>>>)
  @@ (30 :> <<<<2, 3, 5, 10, 15, 30>>, <<2, 3, 5, 10, 20, 30>>, <<2, 3, 6, 9, 15, 30>>,
          <<2, 3, 6, 12, 15, 30>>, <<2, 3, 6, 12, 18, 30>>, <<2, 3, 6, 12, 24, 30>>,
          <<2, 4, 5, 10, 15, 30>>, <<2, 4, 5, 10, 20, 30>>, <<2, 4, 6, 10, 20, 30>>,
          <<2, 4, 6, 12, 18, 30>>, <<2, 4, 6, 12, 24, 30>>, <<2, 4, 8, 10, 20, 30>>>>)
  @@ (100 :> <<<<2, 3, 5, 10, 15, 25, 50, 100>>, <<2, 3, 5, 10, 20, 25, 50, 100>>,
          <<2, 3, 5, 10, 20, 30, 50, 100>>, <<2, 3, 5, 10, 20, 40, 50, 100>>,
          <<2, 3, 5, 10, 20, 40, 60, 100>>, <<2, 3, 5, 10, 20, 40, 80, 100>>,
          <<2, 3, 6, 12, 13, 25, 50, 100>>, <<2, 3, 6, 12, 24, 25, 50, 100>>,
          <<2, 3, 6, 12, 24, 26, 50, 100>>, <<2, 3, 6, 12, 24, 48, 50, 100>>,
          <<2, 4, 5, 10, 15, 25, 50, 100>>, <<2, 4, 5, 10, 20, 25, 50, 100>>,
          <<2, 4, 5, 10, 20, 30, 50, 100>>, <<2, 4, 5, 10, 20, 40, 50, 100>>,
          <<2, 4, 5, 10, 20, 40, 60, 100>>, <<2, 4, 5, 10, 20, 40, 80, 100>>,
          <<2, 4, 6, 10, 20, 30, 50, 100>>, <<2, 4, 6, 10, 20, 40, 50, 100>>,
          <<2, 4, 6, 10, 20, 40, 60, 100>>, <<2, 4, 6, 10, 20, 40, 80, 100>>,
          <<2, 4, 6, 12, 13, 25, 50, 100>>, <<2, 4, 6, 12, 24, 25, 50, 100>>,
          <<2, 4, 6, 12, 24, 26, 50, 100>>, <<2, 4, 6, 12, 24, 48, 50, 100>>,
          <<2, 4, 6, 12, 24, 48, 52, 100>>, <<2, 4, 6, 12, 24, 48, 96, 100>>,
          <<2, 4, 8, 9, 17, 25, 50, 100>>, <<2, 4, 8, 10, 20, 30, 50, 100>>,
          <<2, 4, 8, 10, 20, 40, 50, 100>>, <<2, 4, 8, 10, 20, 40, 60, 100>>,
          <<2, 4, 8, 10, 20, 40, 80, 100>>, <<2, 4, 8, 12, 13, 25, 50, 100>>,
          <<2, 4, 8, 12, 20, 40, 60, 100>>, <<2, 4, 8, 12, 20, 40, 80, 100>>,
          <<2, 4, 8, 12, 24, 25, 50, 100>>, <<2, 4, 8, 12, 24, 26, 50, 100>>,
          <<2, 4, 8, 12, 24, 48, 50, 100>>, <<2, 4, 8, 12, 24, 48, 52, 100>>,
          <<2, 4, 8, 12, 24, 48, 96, 100>>, <<2, 4, 8, 16, 17, 25, 50, 100>>,
          <<2, 4, 8, 16, 17, 33, 50, 100>>, <<2, 4, 8, 16, 17, 34, 50, 100>>,
          <<2, 4, 8, 16, 18, 34, 50, 100>>, <<2, 4, 8, 16, 20, 40, 60, 100>>,
          <<2, 4, 8, 16, 20, 40, 80, 100>>, <<2, 4, 8, 16, 24, 25, 50, 100>>,
          <<2, 4, 8, 16, 24, 26, 50, 100>>, <<2, 4, 8, 16, 24, 48, 50, 100>>,
          <<2, 4, 8, 16, 24, 48, 52, 100>>, <<2, 4, 8, 16, 24, 48, 96, 100>>,
          <<2, 4, 8, 16, 32, 34, 50, 100>>, <<2, 4, 8, 16, 32, 34, 66, 100>>,
          <<2, 4, 8, 16, 32, 34, 68, 100>>, <<2, 4, 8, 16, 32, 36, 68, 100>>,
          <<2, 4, 8, 16, 32, 48, 50, 100>>, <<2, 4, 8, 16, 32, 48, 52, 100>>,
          <<2, 4, 8, 16, 32, 48, 96, 100>>, <<2, 4, 8, 16, 32, 64, 68, 100>>,
          <<2, 4, 8, 16, 32, 64, 96, 100>>>>)

\* a KeyError of a dictionary lookup, and the results of the operations
KeyError == [st |-> "KeyError", length |-> 0, steps |-> <<>>]
NotCalled == [st |-> "none", length |-> 0, steps |-> <<>>]
Returned(length, steps) == [st |-> "ok", length |-> length, steps |-> steps]

\* the keys of tabulated_addition_chains after the load: range(2, 1000)
IsTabulated(p) == p \in 2..999

\* the keys of shortest_path_costs
HasCost(p) == p \in DOMAIN shortest_path_costs

(***************************************************************************)
(* addition_chain_length                                                   *)
(***************************************************************************)
\* wrong: the entry of the table is taken for the number of multiplications of
\* a chain that is one element longer
addition_chain_length_longer(power) ==
  IF HasCost(power) THEN Returned(shortest_path_costs[power] + 1, <<>>) ELSE KeyError

\* wrong: the key looked up is the next one
addition_chain_length_next(power) ==
  IF HasCost(power + 1) THEN Returned(shortest_path_costs[power + 1], <<>>) ELSE KeyError

addition_chain_length(power) ==
  IF HasCost(power) THEN Returned(shortest_path_costs[power], <<>>) ELSE KeyError

(***************************************************************************)
(* minimum_addition_chain_multi                                            *)
(***************************************************************************)
\* the starting value of min_lengh
NoMinimum == 1000000000

\* wrong: a later combination replaces the best one only when it is smaller
ReplacesBestStrict(N, min_lengh) == N < min_lengh

\* `if N <= min_lengh`: the combination replaces the best one so far
ReplacesBest(N, min_lengh) == N <= min_lengh

\* wrong: the elements of the chains are counted with their repetitions
UnionSizeRepeated(multi_steps) ==
  LET RECURSIVE total(_)
      total(i) == IF i > Len(multi_steps) THEN 0 ELSE Len(multi_steps[i]) + total(i + 1)
  IN total(1)

\* base.update(v) for v in multi_steps; N = len(base)
UnionSize(multi_steps) == Cardinality(Elements(multi_steps))

\* The loop over product(*things_to_try), in itertools' order (the last list
\* varies fastest): the combinations that begin with `chosen` and continue with
\* one of things_to_try[i][lo..hi]; best is (min_lengh, min_steps) so far.  The
\* range lo..hi is walked in order, by halves.
RECURSIVE ProductLoop(_, _, _, _, _)
ProductLoop(things_to_try, chosen, lo, hi, best) ==
  LET i == Len(chosen) + 1 IN
  IF i > Len(things_to_try)
    THEN LET N == UnionSize(chosen)
         IN IF ReplacesBest(N, best.length) THEN Returned(N, chosen) ELSE best
    ELSE IF lo > hi THEN best
    ELSE IF lo = hi
      THEN LET longer == Append(chosen, things_to_try[i][lo])
           IN ProductLoop(things_to_try, longer, 1,
                          IF i < Len(things_to_try) THEN Len(things_to_try[i + 1]) ELSE 0,
                          best)
    ELSE LET mid == (lo + hi) \div 2
             first == ProductLoop(things_to_try, chosen, lo, mid, best)
         IN IF first.st = "ok" THEN ProductLoop(things_to_try, chosen, mid + 1, hi, first)
            ELSE first

\* wrong: the candidate lists are taken for the powers in ascending order
ThingsToTrySorted(powers) ==
  LET sorted_powers == SortedInts(powers)
  IN [i \in DOMAIN powers |-> tabulated_addition_chains[sorted_powers[i]]]

\* things_to_try = [tabulated_addition_chains[p] for p in powers]
ThingsToTry(powers) == [i \in DOMAIN powers |-> tabulated_addition_chains[powers[i]]]

\* wrong: a power without chains is passed over and the rest is solved
minimum_addition_chain_multi_skipping(powers) ==
  ProductLoop(ThingsToTry(SelectSeq(powers, IsTabulated)), <<>>, 1,
              IF SelectSeq(powers, IsTabulated) = <<>> THEN 0
              ELSE Len(ThingsToTry(SelectSeq(powers, IsTabulated))[1]),
              Returned(NoMinimum, <<>>))

minimum_addition_chain_multi(powers) ==
  IF \E i \in DOMAIN powers : ~IsTabulated(powers[i]) THEN KeyError
  ELSE LET things_to_try == ThingsToTry(powers)
       IN ProductLoop(things_to_try, <<>>, 1,
                      IF things_to_try = <<>> THEN 0 ELSE Len(things_to_try[1]),
                      Returned(NoMinimum, <<>>))

(***************************************************************************)
(* minimum_addition_chain_multi_heuristic                                  *)
(***************************************************************************)
\* wrong: l2 = l, the exponents of the small chains are not taken out
ShortenedNothing(l, small_exponents) == l

\* l2 = [v for v in l if v not in small_exponents]
RECURSIVE Shortened(_, _)
Shortened(l, small_exponents) ==
  IF l = <<>> THEN <<>>
  ELSE (IF Head(l) \in small_exponents THEN <<>> ELSE <<Head(l)>>)
       \o Shortened(Tail(l), small_exponents)

\* the order of the tuples (len(l2), l2, l) under new_lengths_i.sort()
LengthsLess(a, b) ==
  IF a.length # b.length THEN a.length < b.length
  ELSE IF a.l2 # b.l2 THEN ListLess(a.l2, b.l2)
  ELSE ListLess(a.l, b.l)

\* new_lengths_i after the sort, for the chains power_possibilities: the entry
\* at position k is the one with k - 1 entries below it (the chains of a power
\* are distinct, so no two entries are equal)
NewLengths(power_possibilities, small_exponents) ==
  LET entry(l) == [length |-> Len(Shortened(l, small_exponents)),
                   l2 |-> Shortened(l, small_exponents), l |-> l]
      entries == {entry(power_possibilities[k]) : k \in DOMAIN power_possibilities}
  IN [k \in DOMAIN power_possibilities |->
        CHOOSE e \in entries : Cardinality({d \in entries : LengthsLess(d, e)}) = k - 1]

\* the entries of new_lengths_i with length == min_length_i, in their order
FinalLengths(new_lengths_i, min_length_i) ==
  SubSeq(new_lengths_i, 1,
         Cardinality({k \in DOMAIN new_lengths_i : new_lengths_i[k].length = min_length_i}))

\* things_to_try_shortened[i]: final_lengths_i
ShortenedChoices(final) == [k \in DOMAIN final |-> final[k].l2]

\* wrong: the chain found by the second search is returned as it is
ShortToOriginalMissing(final, l2) == l2

\* shorts_to_original[i][tuple(l)]: the assignment of the last entry with that l2
ShortToOriginal(final, l2) ==
  LET ks == {k \in DOMAIN final : final[k].l2 = l2}
  IN final[CHOOSE k \in ks : \A m \in ks : m <= k].l

\* wrong: the comparison of the second search is strict
ReplacesBestShortStrict(N, min_lengh) == N < min_lengh

\* `if len(base) <= min_lengh` of the search over things_to_try_shortened
ReplacesBestShort(N, min_lengh) == N <= min_lengh

RECURSIVE ShortProductLoop(_, _, _, _, _)
ShortProductLoop(things_to_try_shortened, chosen, lo, hi, best) ==
  LET i == Len(chosen) + 1 IN
  IF i > Len(things_to_try_shortened)
    THEN LET N == Cardinality(Elements(chosen))
         IN IF ReplacesBestShort(N, best.length) THEN Returned(N, chosen) ELSE best
    ELSE IF lo > hi THEN best
    ELSE IF lo = hi
      THEN LET longer == Append(chosen, things_to_try_shortened[i][lo])
           IN ShortProductLoop(things_to_try_shortened, longer, 1,
                               IF i < Len(things_to_try_shortened)
                                 THEN Len(things_to_try_shortened[i + 1]) ELSE 0,
                               best)
    ELSE LET mid == (lo + hi) \div 2
             first == ShortProductLoop(things_to_try_shortened, chosen, lo, mid, best)
         IN IF first.st = "ok"
              THEN ShortProductLoop(things_to_try_shortened, chosen, mid + 1, hi, first)
              ELSE first

\* powers[0:small_chain_length] of the sorted powers
SmallPowerChain(sorted_powers, small_chain_length) ==
  SubSeq(sorted_powers, 1,
         IF small_chain_length < Len(sorted_powers) THEN small_chain_length
         ELSE Len(sorted_powers))

\* wrong: the remaining powers are the powers after the first small_chain_length
RemainingPowersByPosition(sorted_powers, small_power_chain) ==
  SubSeq(sorted_powers, Len(small_power_chain) + 1, Len(sorted_powers))

\* remaining_powers = [i for i in powers if i not in small_power_chain]
RECURSIVE RemainingPowers(_, _)
RemainingPowers(sorted_powers, small_power_chain) ==
  IF sorted_powers = <<>> THEN <<>>
  ELSE (IF Head(sorted_powers) \in Range(small_power_chain) THEN <<>>
        ELSE <<Head(sorted_powers)>>)
       \o RemainingPowers(Tail(sorted_powers), small_power_chain)

\* final_lengths_i of every remaining power
FinalLengthsOf(remaining_powers, small_exponents) ==
  [i \in DOMAIN remaining_powers |->
     LET new_lengths_i == NewLengths(tabulated_addition_chains[remaining_powers[i]],
                                     small_exponents)
     IN FinalLengths(new_lengths_i, new_lengths_i[1].length)]

\* things_to_try_shortened of every remaining power
ThingsToTryShortened(final) == [i \in DOMAIN final |-> ShortenedChoices(final[i])]

\* the second search, over product(*things_to_try_shortened)
ShortSearch(things_to_try_shortened) ==
  ShortProductLoop(things_to_try_shortened, <<>>, 1,
                   IF things_to_try_shortened = <<>> THEN 0
                   ELSE Len(things_to_try_shortened[1]),
                   Returned(NoMinimum, <<>>))

\* wrong: the length of the small part is left out of the total
HeuristicResultWithoutSmall(small, final, found) ==
  Returned(found.length,
           small.steps \o [i \in DOMAIN final |-> ShortToOriginal(final[i], found.steps[i])])

\* the result: the chains of the small powers, then the chain of every
\* remaining power in full, and the two lengths added
HeuristicResult(small, final, found) ==
  Returned(small.length + found.length,
           small.steps \o [i \in DOMAIN final |-> ShortToOriginal(final[i], found.steps[i])])

\* the heuristic from its second search on, final_lengths_i being known
HeuristicSecondSearch(small, final) ==
  HeuristicResult(small, final, ShortSearch(ThingsToTryShortened(final)))

\* the heuristic once the exact search over the small powers has returned
HeuristicAfterSmall(remaining_powers, small) ==
  IF small.st # "ok" THEN KeyError
  ELSE IF \E i \in DOMAIN remaining_powers : ~IsTabulated(remaining_powers[i])
    THEN KeyError
  ELSE HeuristicSecondSearch(small, FinalLengthsOf(remaining_powers, Elements(small.steps)))

\* the heuristic on the sorted powers and their first small_chain_length
HeuristicOnSorted(sorted_powers, small_power_chain) ==
  HeuristicAfterSmall(RemainingPowers(sorted_powers, small_power_chain),
                      minimum_addition_chain_multi(small_power_chain))

HeuristicOnPowers(sorted_powers, small_chain_length) ==
  HeuristicOnSorted(sorted_powers, SmallPowerChain(sorted_powers, small_chain_length))

minimum_addition_chain_multi_heuristic(powers, small_chain_length) ==
  HeuristicOnPowers(SortedInts(powers), small_chain_length)

(***************************************************************************)
(* addition_chains_naive_length (symopt)                                   *)
(***************************************************************************)
\* for p in powers: tot += shortest_path_costs[p]
RECURSIVE NaiveLoop(_, _, _)
NaiveLoop(powers, i, tot) ==
  IF i > Len(powers) THEN Returned(tot, <<>>)
  ELSE IF ~HasCost(powers[i]) THEN KeyError
  ELSE NaiveLoop(powers, i + 1, tot + shortest_path_costs[powers[i]])

\* wrong: tot is assigned, not added to, so it ends as the cost of the last power
addition_chains_naive_length_last(powers) ==
  IF \E i \in DOMAIN powers : ~HasCost(powers[i]) THEN KeyError
  ELSE IF powers = <<>> THEN Returned(0, <<>>)
  ELSE Returned(shortest_path_costs[powers[Len(powers)]], <<>>)

addition_chains_naive_length(powers) == NaiveLoop(powers, 1, 0)

(***************************************************************************)
(* mathopt/optimize_terms.py works on expressions of the symbolic-algebra  *)
(* library.  An expression is a tree of nodes k(args): Num (an integer,    *)
(* in exp), Sym (a symbol, in name), Pow (args[1] to the power exp), Mul,   *)
(* Add, Fun (a function application, its name in name) and Un (an          *)
(* UnevaluatedExpr).  Exponents are exact rationals, held as multiples of   *)
(* 1/Unit: the inputs of the model carry rational exponents, which         *)
(* nsimplify leaves as they are.  The constructors below evaluate the way   *)
(* the library does on building a node: nested products and sums are       *)
(* flattened, powers of one base in a product are combined, x**0 is 1 and  *)
(* x**1 is x.  Like terms of a sum are not collected (the inputs of the    *)
(* model have none) and the arguments keep the order they are given in.    *)
(***************************************************************************)
\* exponents are multiples of 1/Unit
Unit == 4 * 5

Node(k, name, exp, args) == [k |-> k, name |-> name, exp |-> exp, args |-> args]
Num(n) == Node("Num", "", n, <<>>)
Sym(s) == Node("Sym", s, 0, <<>>)
Fun(f, a) == Node("Fun", f, 0, <<a>>)
Un(a) == Node("Un", "", 0, <<a>>)
RawPow(b, e) == Node("Pow", "", e, <<b>>)
RawMul(args) == Node("Mul", "", 0, args)
RawAdd(args) == Node("Add", "", 0, args)

One == Num(1)
Zero == Num(0)

\* isinstance(expr, Add), Mul, Pow, ...
IsAdd(e) == e.k = "Add"
IsMul(e) == e.k = "Mul"
IsPow(e) == e.k = "Pow"
IsNum(e) == e.k = "Num"
IsSym(e) == e.k = "Sym"

\* as_base_exp: the base and the exponent of a factor
BaseOf(f) == IF IsPow(f) THEN f.args[1] ELSE f
ExpOf(f) == IF IsPow(f) THEN f.exp ELSE Unit

\* the integer power n ** k, k >= 0
RECURSIVE IntPower(_, _)
IntPower(n, k) == IF k = 0 THEN 1 ELSE n * IntPower(n, k - 1)

\* the arguments of a product, one level flattened
RECURSIVE FlatFactors(_)
FlatFactors(fs) ==
  IF fs = <<>> THEN <<>>
  ELSE (IF IsMul(Head(fs)) THEN Head(fs).args ELSE <<Head(fs)>>) \o FlatFactors(Tail(fs))

\* the product of the numbers among the factors
RECURSIVE Coefficient(_)
Coefficient(fs) ==
  IF fs = <<>> THEN 1
  ELSE (IF IsNum(Head(fs)) THEN Head(fs).exp ELSE 1) * Coefficient(Tail(fs))

\* the (base, exponent) pairs of the factors that are not numbers, the
\* exponents of one base added up, in the order the bases first occur
RECURSIVE Combined(_, _)
Combined(fs, acc) ==
  IF fs = <<>> THEN acc
  ELSE LET f == Head(fs)
           b == BaseOf(f)
           hit == {i \in DOMAIN acc : acc[i].b = b}
       IN IF IsNum(f) THEN Combined(Tail(fs), acc)
          ELSE IF hit = {} THEN Combined(Tail(fs), Append(acc, [b |-> b, e |-> ExpOf(f)]))
          ELSE Combined(Tail(fs),
                 [i \in DOMAIN acc |->
                    IF i \in hit THEN [b |-> b, e |-> acc[i].e + ExpOf(f)] ELSE acc[i]])

\* the pairs with a non-zero exponent, as factors
RECURSIVE AsFactors(_)
AsFactors(pairs) ==
  IF pairs = <<>> THEN <<>>
  ELSE (IF Head(pairs).e = 0 THEN <<>>
        ELSE IF Head(pairs).e = Unit THEN <<Head(pairs).b>>
        ELSE <<RawPow(Head(pairs).b, Head(pairs).e)>>) \o AsFactors(Tail(pairs))

\* Mul(*fs), evaluated
MulC(fs) ==
  LET flat == FlatFactors(fs)
      c == Coefficient(flat)
      factors == AsFactors(Combined(flat, <<>>))
  IN IF c = 0 THEN Zero
     ELSE IF factors = <<>> THEN Num(c)
     ELSE IF c = 1 /\ Len(factors) = 1 THEN factors[1]
     ELSE IF c = 1 THEN RawMul(factors)
     ELSE RawMul(<<Num(c)>> \o factors)

\* the arguments of a sum, one level flattened
RECURSIVE FlatTerms(_)
FlatTerms(ts) ==
  IF ts = <<>> THEN <<>>
  ELSE (IF IsAdd(Head(ts)) THEN Head(ts).args ELSE <<Head(ts)>>) \o FlatTerms(Tail(ts))

RECURSIVE Constant(_)
Constant(ts) ==
  IF ts = <<>> THEN 0
  ELSE (IF IsNum(Head(ts)) THEN Head(ts).exp ELSE 0) + Constant(Tail(ts))

RECURSIVE NonNumbers(_)
NonNumbers(ts) ==
  IF ts = <<>> THEN <<>>
  ELSE (IF IsNum(Head(ts)) THEN <<>> ELSE <<Head(ts)>>) \o NonNumbers(Tail(ts))

\* Add(*ts), evaluated
AddC(ts) ==
  LET flat == FlatTerms(ts)
      c == Constant(flat)
      terms == NonNumbers(flat) \o (IF c = 0 THEN <<>> ELSE <<Num(c)>>)
  IN IF terms = <<>> THEN Zero
     ELSE IF Len(terms) = 1 THEN terms[1]
     ELSE RawAdd(terms)

\* Pow(b, e), evaluated: an integer power of a power or of a product is
\* carried into it
RECURSIVE PowC(_, _)
PowC(b, e) ==
  IF e = 0 THEN One
  ELSE IF e = Unit THEN b
  ELSE IF b = One THEN One
  ELSE IF IsPow(b) /\ e % Unit = 0 THEN PowC(b.args[1], (b.exp * e) \div Unit)
  ELSE IF IsMul(b) /\ e % Unit = 0 THEN MulC([i \in DOMAIN b.args |-> PowC(b.args[i], e)])
  ELSE IF IsNum(b) /\ e % Unit = 0 /\ e > 0 THEN Num(IntPower(b.exp, e \div Unit))
  ELSE RawPow(b, e)

\* a * b and a + b
Times(a, b) == MulC(<<a, b>>)
Plus(a, b) == AddC(<<a, b>>)

\* sqrt(a) and 1/a
Sqrt(a) == PowC(a, Unit \div 2)
Inverse(a) == PowC(a, -Unit)

\* expr.func(*args): the node rebuilt on new arguments
Rebuilt(e, args) ==
  IF IsMul(e) THEN MulC(args)
  ELSE IF IsAdd(e) THEN AddC(args)
  ELSE IF IsPow(e) THEN PowC(args[1], e.exp)
  ELSE IF e.args = <<>> THEN e
  ELSE Node(e.k, e.name, e.exp, args)

\* expr.replace(old, new): every subexpression equal to old becomes new, the
\* nodes above it rebuilt
RECURSIVE Replace(_, _, _)
Replace(e, old, new) ==
  IF e = old THEN new
  ELSE IF e.args = <<>> THEN e
  ELSE Rebuilt(e, [i \in DOMAIN e.args |-> Replace(e.args[i], old, new)])

\* expr.count(v): the subexpressions equal to v
RECURSIVE Count(_, _)
Count(e, v) ==
  LET RECURSIVE below(_)
      below(i) == IF i > Len(e.args) THEN 0 ELSE Count(e.args[i], v) + below(i + 1)
  IN (IF e = v THEN 1 ELSE 0) + below(1)

\* expr.free_symbols, as names
RECURSIVE FreeSymbols(_)
FreeSymbols(e) ==
  IF IsSym(e) THEN {e.name}
  ELSE UNION {FreeSymbols(e.args[i]) : i \in DOMAIN e.args}

\* expr.has(var)
Has(e, var) == var.name \in FreeSymbols(e)

\* s.as_coeff_mul(var): the factors of a product free of var, as c, and the
\* factors that hold var, as p
DependentFactors(e, var) ==
  IF IsMul(e) THEN SelectSeq(e.args, LAMBDA f : Has(f, var))
  ELSE IF Has(e, var) THEN <<e>> ELSE <<>>
IndependentFactors(e, var) ==
  IF IsMul(e) THEN SelectSeq(e.args, LAMBDA f : ~Has(f, var))
  ELSE IF Has(e, var) THEN <<>> ELSE <<e>>

\* expr.as_coeff_exponent(var): (c, e) when expr is c * var**e with c free of
\* var, and (expr, 0) otherwise.  collect(expr, var) is taken to leave expr
\* as it is: no sum of the model has two terms with one power of var in
\* front of brackets
as_coeff_exponent(e, var) ==
  LET p == DependentFactors(e, var)
  IN IF Len(p) = 1 /\ BaseOf(p[1]) = var
       THEN [c |-> MulC(IndependentFactors(e, var)), e |-> ExpOf(p[1])]
       ELSE [c |-> e, e |-> 0]

\* fraction(arg)[1]: the factors of arg with a negative exponent, inverted
fraction_denom(arg) ==
  LET fs == IF IsMul(arg) THEN arg.args ELSE <<arg>>
      neg == SelectSeq(fs, LAMBDA f : IsPow(f) /\ f.exp < 0)
  IN MulC([i \in DOMAIN neg |-> PowC(neg[i].args[1], -neg[i].exp)])

\* sub in s, for two strings
StringContains(s, sub) ==
  \E i \in 1..(Len(s) - Len(sub) + 1) : SubSeq(s, i, i + Len(sub) - 1) = sub

\* the names printed in str(expr): of its symbols and of its functions
RECURSIVE PrintedNames(_)
PrintedNames(e) ==
  (IF e.name = "" THEN {} ELSE {e.name})
     \cup UNION {PrintedNames(e.args[i]) : i \in DOMAIN e.args}

\* str(expr).count('**'): sqrt(a), 1/a and 1/sqrt(a) are printed without **
RECURSIVE StrPowCount(_)
StrPowCount(e) ==
  LET RECURSIVE below(_)
      below(i) == IF i > Len(e.args) THEN 0 ELSE StrPowCount(e.args[i]) + below(i + 1)
  IN (IF IsPow(e) /\ e.exp \notin {Unit \div 2, -Unit, -(Unit \div 2)} THEN 1 ELSE 0)
       + below(1)

(***************************************************************************)
(* Expanded form.  A polynomial is a set of monomials [c, m] with distinct *)
(* m and c # 0; m is a set of pairs <<atom, exponent>> with distinct atoms *)
(* and exponents # 0 in multiples of 1/Unit; an atom is a symbol or a      *)
(* subexpression that is not expanded further.  It is what expand() makes  *)
(* of an expression before Poly reads it, and it is the value of an        *)
(* expression as a function of the positive input variables.               *)
(***************************************************************************)
RECURSIVE SetToSeq(_)
SetToSeq(S) ==
  IF S = {} THEN <<>>
  ELSE LET x == CHOOSE y \in S : TRUE IN <<x>> \o SetToSeq(S \ {x})

ExpIn(m, a) ==
  IF \E p \in m : p[1] = a THEN (CHOOSE p \in m : p[1] = a)[2] ELSE 0

MonoTimes(m1, m2) ==
  LET atoms == {p[1] : p \in m1 \cup m2}
  IN {<<a, ExpIn(m1, a) + ExpIn(m2, a)>> :
        a \in {b \in atoms : ExpIn(m1, b) + ExpIn(m2, b) # 0}}

CoefficientIn(p, m) ==
  IF \E t \in p : t.m = m THEN (CHOOSE t \in p : t.m = m).c ELSE 0

PolyNum(n) == IF n = 0 THEN {} ELSE {[c |-> n, m |-> {}]}
PolyAtom(a, e) == {[c |-> 1, m |-> {<<a, e>>}]}

PolyPlus(p, q) ==
  LET ms == {t.m : t \in p \cup q}
  IN {[c |-> CoefficientIn(p, m) + CoefficientIn(q, m), m |-> m] :
        m \in {n \in ms : CoefficientIn(p, n) + CoefficientIn(q, n) # 0}}

RECURSIVE SumOfProducts(_)
SumOfProducts(pairs) ==
  IF pairs = {} THEN 0
  ELSE LET tu == CHOOSE xy \in pairs : TRUE
       IN tu[1].c * tu[2].c + SumOfProducts(pairs \ {tu})

PolyTimes(p, q) ==
  LET ms == {MonoTimes(tu[1].m, tu[2].m) : tu \in p \X q}
      coef(m) == SumOfProducts({tu \in p \X q : MonoTimes(tu[1].m, tu[2].m) = m})
  IN {[c |-> coef(m), m |-> m] : m \in {n \in ms : coef(n) # 0}}

RECURSIVE PolyIntPower(_, _)
PolyIntPower(p, n) == IF n = 0 THEN PolyNum(1) ELSE PolyTimes(p, PolyIntPower(p, n - 1))

\* a polynomial of one monomial with coefficient 1: a product of powers
IsPowerProduct(p) == Cardinality(p) = 1 /\ \A t \in p : t.c = 1

\* the expression of a monomial and of a polynomial
MonoTree(t) ==
  LET ps == SetToSeq(t.m)
  IN MulC(<<Num(t.c)>> \o [i \in DOMAIN ps |-> PowC(ps[i][1], ps[i][2])])
PolyTree(p) ==
  LET ts == SetToSeq(p) IN AddC([i \in DOMAIN ts |-> MonoTree(ts[i])])

\* the power e of a polynomial: of a product of powers when the exponents
\* stay multiples of 1/Unit, a repeated product for a positive integer e,
\* and an atom otherwise
PolyPower(p, e) ==
  IF IsPowerProduct(p) /\ \A t \in p : \A pr \in t.m : (pr[2] * e) % Unit = 0
    THEN {[c |-> 1, m |-> {<<pr[1], (pr[2] * e) \div Unit>> : pr \in t.m}] : t \in p}
  ELSE IF e % Unit = 0 /\ e > 0 THEN PolyIntPower(p, e \div Unit)
  ELSE PolyAtom(RawPow(PolyTree(p), e), Unit)

\* what a symbol without a value stands for
Undefined == {[c |-> 0, m |-> {}]}
IsDefined(p) == p # Undefined

\* the expanded form of expr, every symbol of DOMAIN env replaced by its
\* value env[name]; Undefined when a symbol of unbound is met
RECURSIVE Expand(_, _, _)
Expand(e, env, unbound) ==
  LET sub == [i \in DOMAIN e.args |-> Expand(e.args[i], env, unbound)]
      RECURSIVE sum(_)
      sum(i) == IF i > Len(sub) THEN PolyNum(0) ELSE PolyPlus(sub[i], sum(i + 1))
      RECURSIVE product(_)
      product(i) == IF i > Len(sub) THEN PolyNum(1) ELSE PolyTimes(sub[i], product(i + 1))
  IN IF IsNum(e) THEN PolyNum(e.exp)
     ELSE IF IsSym(e)
       THEN IF e.name \in DOMAIN env THEN env[e.name]
            ELSE IF e.name \in unbound THEN Undefined
            ELSE PolyAtom(e, Unit)
     ELSE IF \E i \in DOMAIN sub : ~IsDefined(sub[i]) THEN Undefined
     ELSE IF IsAdd(e) THEN sum(1)
     ELSE IF IsMul(e) THEN product(1)
     ELSE IF IsPow(e) THEN PolyPower(sub[1], e.exp)
     ELSE IF e.k = "Un" THEN sub[1]
     ELSE PolyAtom(Node(e.k, e.name, e.exp, <<PolyTree(sub[1])>>), Unit)

(***************************************************************************)
(* mathopt/optimize_terms.py.  Every function returns the rewritten        *)
(* expression with the plan it adds: the list assignments of new symbols   *)
(* and the list expressions of what each one stands for.                   *)
(***************************************************************************)
Plan(new, assignments, expressions) ==
  [new |-> new, assignments |-> assignments, expressions |-> expressions]

\* x in list
InList(x, list) == \E i \in DOMAIN list : list[i] = x

\* if sym not in assignments: assignments.append(sym); expressions.append(expr)
AppendNew(plan, sym, expr) ==
  IF InList(sym, plan.assignments) THEN plan
  ELSE Plan(plan.new, Append(plan.assignments, sym), Append(plan.expressions, expr))

\* symbols(var.name + '_inv')
InvSymbol(var) == Sym(var.name \o "_inv")

\* change_term of replace_inv: the power of var in the denominator of the
\* term is replaced by the same power of var_inv
replace_inv_term(arg, var) ==
  LET denom == fraction_denom(arg)
      power == as_coeff_exponent(denom, var).e
  IN IF \E n \in PrintedNames(denom) : StringContains(n, var.name)
       THEN Replace(arg, PowC(var, -power), PowC(InvSymbol(var), power))
       ELSE arg

RECURSIVE replace_inv_new(_, _)
replace_inv_new(expr, var) ==
  IF IsAdd(expr) THEN AddC([i \in DOMAIN expr.args |-> replace_inv_term(expr.args[i], var)])
  ELSE IF IsMul(expr) THEN MulC([i \in DOMAIN expr.args |-> replace_inv_new(expr.args[i], var)])
  ELSE expr

\* the reciprocal symbol recorded once for every use of it in the result
replace_inv_per_use(expr, var) ==
  Plan(replace_inv_new(expr, var),
       [i \in 1..Count(replace_inv_new(expr, var), InvSymbol(var)) |-> InvSymbol(var)],
       [i \in 1..Count(replace_inv_new(expr, var), InvSymbol(var)) |-> Inverse(var)])

replace_inv(expr, var) ==
  LET new == replace_inv_new(expr, var)
  IN IF Has(new, InvSymbol(var))
       THEN Plan(new, <<InvSymbol(var)>>, <<Inverse(var)>>)
       ELSE Plan(new, <<>>, <<>>)

\* newvar of replace_power_sqrts
newvar(var, root, suffix) == Sym(var.name \o "rt" \o ToString(root) \o suffix)

\* the exponents -0.5, -0.25 and -0.75 and the remainders 0.5, 0.25, 0.75
Half == Unit \div 2
Quarter == Unit \div 4
ThreeQuarters == 3 * (Unit \div 4)

\* assignments[-2]
SecondLast(list) == list[Len(list) - 1]

\* is05, is025 and is075 of change_term, the remainder being power % 1
is05(power) == power % Unit = Half
is025(power) ==
  (power = -Quarter \/ power % Unit = Quarter) /\ ~(power = -ThreeQuarters)
is075(power) == power = -ThreeQuarters \/ power % Unit = ThreeQuarters

\* new_power of change_term
new_power(power) ==
  IF is05(power) THEN (IF power = -Half THEN 0 ELSE power - Half)
  ELSE IF is025(power) THEN (IF power = -Quarter THEN 0 ELSE power - Quarter)
  ELSE (IF power = -ThreeQuarters THEN 0 ELSE power - ThreeQuarters)

\* change_term, lines 177-187: the square root, or its inverse for the
\* power -0.5; plan.new is rtvar
square_root_added(var, power, plan) ==
  IF power = -Half
    THEN AppendNew(Plan(newvar(var, 2, "inv"), plan.assignments, plan.expressions),
                   newvar(var, 2, "inv"), Inverse(Sqrt(var)))
    ELSE AppendNew(Plan(newvar(var, 2, ""), plan.assignments, plan.expressions),
                   newvar(var, 2, ""), Sqrt(var))

\* change_term, lines 189-194: the fourth root, the square root of rtvar
fourth_root_added(var, power, plan) ==
  IF is025(power) \/ is075(power)
    THEN AppendNew(Plan(newvar(var, 4, ""), plan.assignments, plan.expressions),
                   newvar(var, 4, ""), Sqrt(plan.new))
    ELSE plan

\* change_term, lines 195-212: the symbols of the powers -0.25 and -0.75, and
\* the product of the two roots for the other three-quarter powers
inverse_root_added(var, power, plan) ==
  IF is05(power) THEN plan
  ELSE IF is025(power)
    THEN IF power = -Quarter
           THEN AppendNew(Plan(newvar(var, 4, "inv"), plan.assignments, plan.expressions),
                          newvar(var, 4, "inv"), Inverse(newvar(var, 4, "inv")))
           ELSE plan
  ELSE IF power = -ThreeQuarters
    THEN AppendNew(Plan(newvar(var, 34, "inv"), plan.assignments, plan.expressions),
                   newvar(var, 34, "inv"),
                   Inverse(Times(plan.new, SecondLast(plan.assignments))))
    ELSE Plan(Times(plan.new, SecondLast(plan.assignments)),
              plan.assignments, plan.expressions)

\* change_term, lines 214-215: arg = factor*rtvar*var**(new_power)
term_rebuilt(factor, var, power, plan) ==
  Plan(MulC(<<factor, plan.new, PowC(var, new_power(power))>>),
       plan.assignments, plan.expressions)

\* change_term of replace_power_sqrts, given factor, power = ce
sqrts_change_term_of(arg, var, plan, ce) ==
  IF is05(ce.e) \/ is025(ce.e) \/ is075(ce.e)
    THEN term_rebuilt(ce.c, var, ce.e,
           inverse_root_added(var, ce.e,
             fourth_root_added(var, ce.e, square_root_added(var, ce.e, plan))))
    ELSE Plan(arg, plan.assignments, plan.expressions)

\* change_term of replace_power_sqrts; plan.new is not read
sqrts_change_term(arg, var, plan) ==
  sqrts_change_term_of(arg, var, plan, as_coeff_exponent(arg, var))

\* new += to_add, the plan of the term taken over
term_added(plan, t) == Plan(Plus(plan.new, t.new), t.assignments, t.expressions)

\* for arg in expr.args: new += change_term(arg, assignments, expressions)
RECURSIVE sqrts_terms(_, _, _, _)
sqrts_terms(args, i, var, plan) ==
  IF i > Len(args) THEN plan
  ELSE sqrts_terms(args, i + 1, var,
                   term_added(plan, sqrts_change_term(args[i], var, plan)))

\* new *= to_mul; assignments += temp_assign; expressions += temp_expr
factor_joined(plan, t) ==
  Plan(Times(plan.new, t.new), plan.assignments \o t.assignments,
       plan.expressions \o t.expressions)

RECURSIVE replace_power_sqrts(_, _)
\* for arg in expr.args: replace_power_sqrts(arg, var), the plans of the
\* factors joined end to end
RECURSIVE sqrts_factors(_, _, _, _)
sqrts_factors(args, i, var, plan) ==
  IF i > Len(args) THEN plan
  ELSE sqrts_factors(args, i + 1, var,
                     factor_joined(plan, replace_power_sqrts(args[i], var)))

replace_power_sqrts(expr, var) ==
  IF IsAdd(expr) THEN sqrts_terms(expr.args, 1, var, Plan(Zero, <<>>, <<>>))
  ELSE IF IsPow(expr) THEN sqrts_change_term(expr, var, Plan(Zero, <<>>, <<>>))
  ELSE IF IsMul(expr) THEN sqrts_factors(expr.args, 1, var, Plan(One, <<>>, <<>>))
  ELSE Plan(expr, <<>>, <<>>)

\* Poly(expr, var) reads expr when, expanded, var stands in it only as var**n
\* for whole n >= 0; otherwise it raises PolynomialError
IsPolynomialIn(p, var) ==
  \A t \in p : \A pr \in t.m :
    IF pr[1] = var THEN pr[2] >= 0 /\ pr[2] % Unit = 0 ELSE ~Has(pr[1], var)

\* the degree of a monomial in var
DegreeIn(t, var) == ExpIn(t.m, var) \div Unit

\* F.all_coeffs()[n - d]: the coefficient of var**d, as an expression
CoefficientOf(p, var, d) ==
  PolyTree({[c |-> t.c, m |-> {pr \in t.m : pr[1] # var}] :
              t \in {u \in p : DegreeIn(u, var) = d}})

\* for coeff in F.all_coeffs(): form = form*gen + coeff
RECURSIVE HornerForm(_, _, _, _)
HornerForm(p, var, d, form) ==
  IF d < 0 THEN form
  ELSE HornerForm(p, var, d - 1, Plus(Times(form, var), CoefficientOf(p, var, d)))

\* the degree of the polynomial in var
DegreeOf(p, var) ==
  CHOOSE d \in {DegreeIn(t, var) : t \in p} : \A t \in p : DegreeIn(t, var) <= d

\* wrong: when Poly raises, the expanded form is given for the expression
horner_of_expanded(expr, var, p) ==
  IF p # {} /\ IsPolynomialIn(p, var) THEN HornerForm(p, var, DegreeOf(p, var), Zero)
  ELSE PolyTree(p)

\* horner(expr, var) on the expanded form p of expr
horner_of(expr, var, p) ==
  IF p # {} /\ IsPolynomialIn(p, var) THEN HornerForm(p, var, DegreeOf(p, var), Zero)
  ELSE expr

\* horner_expr: the Horner form of expr in var, or expr as it is when Poly
\* raises.  No expression of the model holds an UnevaluatedExpr here.
horner_expr(expr, var) == horner_of(expr, var, Expand(expr, <<>>, {}))

\* the selectors of replace_intpowers, int(x) == x, and of replace_fracpowers,
\* int(x) != x and abs(x) % .25 != 0
Absolute(n) == IF n < 0 THEN -n ELSE n
\* recursive_find_power's own selector, lambda x: True, for both uses
SelectedAlways(selector, exponent) == TRUE

Selected(selector, exponent) ==
  IF selector = "int" THEN exponent % Unit = 0
  ELSE exponent % Unit # 0 /\ Absolute(exponent) % Quarter # 0

\* recursive_find_power: the exponents of var other than 0 and 1 that the
\* selector takes, over the arguments of expr and below
RECURSIVE recursive_find_power(_, _, _)
recursive_find_power(expr, var, selector) ==
  UNION {LET exponent == as_coeff_exponent(expr.args[i], var).e
         IN IF exponent # 0 /\ exponent # Unit /\ Selected(selector, exponent)
              THEN {exponent}
              ELSE recursive_find_power(expr.args[i], var, selector) :
         i \in DOMAIN expr.args}

\* list(sorted(list(s))) for a set of integers
RECURSIVE SortedSet(_)
SortedSet(S) ==
  IF S = {} THEN <<>>
  ELSE LET least == CHOOSE a \in S : \A b \in S : a <= b
       IN <<least>> \o SortedSet(S \ {least})

\* make_pow_sym
make_pow_sym(var, power, suffix) ==
  IF power = 1 THEN Sym(var.name \o suffix)
  ELSE Sym(var.name \o ToString(power) \o suffix)

\* wrong: delta is taken from the first element of the chain, v - l[0]
chain_expression_from_first(l, i, var, suffix) ==
  IF i = 1 THEN Times(Un(make_pow_sym(var, 1, suffix)), make_pow_sym(var, 1, suffix))
  ELSE Times(Un(make_pow_sym(var, l[i - 1], suffix)),
             make_pow_sym(var, l[i] - l[1], suffix))

\* the symbol and the expression that integer_chain_symbolic_path makes of
\* element i of the chain l
chain_expression(l, i, var, suffix) ==
  IF i = 1 THEN Times(Un(make_pow_sym(var, 1, suffix)), make_pow_sym(var, 1, suffix))
  ELSE Times(Un(make_pow_sym(var, l[i - 1], suffix)),
             make_pow_sym(var, l[i] - l[i - 1], suffix))

RECURSIVE chain_path(_, _, _, _, _)
chain_path(l, i, var, suffix, plan) ==
  IF i > Len(l) THEN plan
  ELSE chain_path(l, i + 1, var, suffix,
                  AppendNew(plan, make_pow_sym(var, l[i], suffix),
                            chain_expression(l, i, var, suffix)))

RECURSIVE integer_chain_symbolic_path_from(_, _, _, _, _)
integer_chain_symbolic_path_from(chain, j, var, suffix, plan) ==
  IF j > Len(chain) THEN plan
  ELSE integer_chain_symbolic_path_from(chain, j + 1, var, suffix,
                                        chain_path(chain[j], 1, var, suffix, plan))

integer_chain_symbolic_path(chain, var, suffix) ==
  integer_chain_symbolic_path_from(chain, 1, var, suffix, Plan(Zero, <<>>, <<>>))

\* for power, replacement in zip(powers[::-1], replacement_vars[::-1]):
\*     expr = expr.replace(var**power, replacement)
RECURSIVE replace_powers(_, _, _, _, _)
replace_powers(expr, var, powers, replacement_vars, i) ==
  IF i < 1 \/ i > Len(replacement_vars) THEN expr
  ELSE replace_powers(Replace(expr, PowC(var, powers[i]), replacement_vars[i]),
                      var, powers, replacement_vars, i - 1)

\* what a function of the pipeline gives: a plan, or the KeyError of the
\* table of chains
Raised == [st |-> "KeyError", new |-> Zero, assignments |-> <<>>, expressions |-> <<>>]
Gives(plan) == [st |-> "ok", new |-> plan.new, assignments |-> plan.assignments,
                expressions |-> plan.expressions]

\* a plan that carries the expression new and the assignments of path
WithPath(new, path) == Gives(Plan(new, path.assignments, path.expressions))

\* powers_int = [int(i) for i in powers]
WholePowers(powers) == [i \in DOMAIN powers |-> powers[i] \div Unit]

\* replacement_vars = [make_pow_sym(var, p) for p in powers]
ReplacementVars(var, powers_int, suffix) ==
  [i \in DOMAIN powers_int |-> make_pow_sym(var, powers_int[i], suffix)]

\* replace_intpowers once the chain is found
intpowers_with(expr, var, powers, found) ==
  IF found.st # "ok" THEN Raised
  ELSE WithPath(replace_powers(expr, var, powers,
                               ReplacementVars(var, WholePowers(powers), ""), Len(powers)),
                integer_chain_symbolic_path(found.steps, var, ""))

\* replace_intpowers on the sorted powers it found
intpowers_of(expr, var, powers) ==
  intpowers_with(expr, var, powers,
                 minimum_addition_chain_multi_heuristic(WholePowers(powers), 0))

replace_intpowers(expr, var) ==
  intpowers_of(expr, var, SortedSet(recursive_find_power(expr, var, "int")))

\* gcd of whole numbers and of a list of them
RECURSIVE Gcd(_, _)
Gcd(a, b) == IF b = 0 THEN Absolute(a) ELSE Gcd(b, a % Absolute(b))

RECURSIVE GcdList(_)
GcdList(s) == IF s = <<>> THEN 0 ELSE Gcd(Head(s), GcdList(Tail(s)))

\* wrong: zip(fractional_powers, replacement_vars), the lists paired from
\* their starts
AlignedAtStart(powers, n) == SubSeq(powers, 1, n)

\* zip(fractional_powers[::-1], replacement_vars[::-1]): the two lists are
\* paired from their ends, the pairs beyond the shorter list dropped
AlignedAtEnd(powers, n) == SubSeq(powers, Len(powers) - n + 1, Len(powers))

\* powers_int: the multiples of base_power, the multiple 1 removed
\* the base power is handled by itself
MultiplesOf(fractional_powers, base_power) ==
  SelectSeq([i \in DOMAIN fractional_powers |-> fractional_powers[i] \div base_power],
            LAMBDA i : i # 1)

\* suffix = '_' + str(base_power.denominator())
SuffixOf(base_power) == "_" \o ToString(Unit \div Gcd(base_power, Unit))

\* assignments.insert(0, var_suffix); expressions.insert(0, var**float(base_power))
WithBase(new, var, base_power, path) ==
  Gives(Plan(new, <<Sym(var.name \o SuffixOf(base_power))>> \o path.assignments,
             <<PowC(var, base_power)>> \o path.expressions))

\* replace_fracpowers once the chain is found
fracpowers_with(expr, var, fractional_powers, base_power, powers_int, found) ==
  IF found.st # "ok" THEN Raised
  ELSE WithBase(Replace(replace_powers(expr, var,
                                       AlignedAtEnd(fractional_powers, Len(powers_int)),
                                       ReplacementVars(var, powers_int, SuffixOf(base_power)),
                                       Len(powers_int)),
                        PowC(var, base_power), Sym(var.name \o SuffixOf(base_power))),
                var, base_power,
                integer_chain_symbolic_path(found.steps, var, SuffixOf(base_power)))

fracpowers_int(expr, var, fractional_powers, base_power, powers_int) ==
  fracpowers_with(expr, var, fractional_powers, base_power, powers_int,
                  minimum_addition_chain_multi_heuristic(powers_int, 0))

fracpowers_base(expr, var, fractional_powers, base_power) ==
  fracpowers_int(expr, var, fractional_powers, base_power,
                 MultiplesOf(fractional_powers, base_power))

\* wrong: only the empty list of powers returns early
fracpowers_of_some(expr, var, fractional_powers) ==
  IF Len(fractional_powers) = 0 THEN Gives(Plan(expr, <<>>, <<>>))
  ELSE fracpowers_base(expr, var, fractional_powers, GcdList(fractional_powers))

\* replace_fracpowers on the sorted powers it found
fracpowers_of(expr, var, fractional_powers) ==
  IF Len(fractional_powers) <= 1 THEN Gives(Plan(expr, <<>>, <<>>))
  ELSE fracpowers_base(expr, var, fractional_powers, GcdList(fractional_powers))

replace_fracpowers(expr, var) ==
  fracpowers_of(expr, var, SortedSet(recursive_find_power(expr, var, "frac")))

\* nsimplify(exponent): the exponents of the model are rationals already
nsimplify(exponent) == exponent

\* the denominator of an exponent in lowest terms, and max_denom
Denominator(exponent) == Unit \div Gcd(exponent, Unit)
max_denom == 1000

RECURSIVE simplify_powers_as_fractions(_, _)
\* change_term of simplify_powers_as_fractions
simplify_change_term(arg, var) ==
  LET exponent == as_coeff_exponent(arg, var).e
  IN IF exponent # 0 /\ exponent # Unit
       THEN IF Denominator(nsimplify(exponent)) <= max_denom
              THEN Replace(arg, PowC(var, exponent), PowC(var, nsimplify(exponent)))
              ELSE arg
     ELSE IF IsMul(arg)
       THEN MulC([i \in DOMAIN arg.args |-> simplify_powers_as_fractions(arg.args[i], var)])
     ELSE arg

simplify_powers_as_fractions(expr, var) ==
  IF IsAdd(expr)
    THEN AddC([i \in DOMAIN expr.args |-> simplify_change_term(expr.args[i], var)])
  ELSE IF IsMul(expr) \/ IsPow(expr) THEN simplify_change_term(expr, var)
  ELSE IF expr.k = "Fun"
    THEN Node(expr.k, expr.name, expr.exp,
              [i \in DOMAIN expr.args |-> simplify_powers_as_fractions(expr.args[i], var)])
  ELSE expr

\* wrong: the uses in the defining expressions are not counted
CountInNone(expressions, v) == 0

\* sum(token.count(v) for token in expressions)
RECURSIVE CountInAll(_, _)
CountInAll(expressions, v) ==
  IF expressions = <<>> THEN 0
  ELSE Count(Head(expressions), v) + CountInAll(Tail(expressions), v)

\* a symbol used once in the expression whatever the expressions use
is_singleton_in_expr(count_expr, count_expressions) == count_expr = 1

\* if count_expr == 1 and count_expressions == 0
is_singleton(count_expr, count_expressions) == count_expr = 1 /\ count_expressions = 0

\* the loop of singleton_variables_inline from assignment i on; the uses are
\* counted in the expression and the expressions the function was given
RECURSIVE singleton_loop(_, _, _, _, _)
singleton_loop(assignments, expressions, expr, i, plan) ==
  IF i > Len(assignments) THEN plan
  ELSE LET expr_tmp == Replace(plan.new, assignments[i], expressions[i])
           kept == Plan(plan.new, Append(plan.assignments, assignments[i]),
                        Append(plan.expressions, expressions[i]))
       IN singleton_loop(assignments, expressions, expr, i + 1,
            IF is_singleton(Count(expr, assignments[i]), CountInAll(expressions, assignments[i]))
              THEN IF StrPowCount(expr_tmp) > StrPowCount(plan.new) THEN kept
                   ELSE Plan(expr_tmp, plan.assignments, plan.expressions)
              ELSE kept)

singleton_variables_inline(assignments, expressions, expr) ==
  singleton_loop(assignments, expressions, expr, 1, Plan(expr, <<>>, <<>>))

(***************************************************************************)
(* The earlier package, symopt.optimize_terms.  Its functions give back    *)
(* an expression only: the caller passes the symbol of the reciprocal, and *)
(* the roots stay in the expression as UnevaluatedExpr.                     *)
(***************************************************************************)

\* '(' in str(denom): a function, a bracketed sum, or a power whose exponent
\* is not whole, printed sqrt(x) or x**(3/4)
RECURSIVE PrintsBracket(_)
PrintsBracket(e) ==
  \/ e.k \in {"Fun", "Un"}
  \/ IsPow(e) /\ e.exp % Unit # 0
  \/ \E i \in DOMAIN e.args : IsAdd(e.args[i]) \/ PrintsBracket(e.args[i])

\* arg.subs(1/var, var_inv): a whole power var**n becomes var_inv**(-n); var
\* by itself, and a power of var that is not whole, stay
RECURSIVE SubsInverse(_, _, _)
SubsInverse(e, var, var_inv) ==
  IF IsPow(e) /\ BaseOf(e) = var /\ e.exp % Unit = 0 THEN PowC(var_inv, -e.exp)
  ELSE IF e.args = <<>> THEN e
  ELSE Rebuilt(e, [i \in DOMAIN e.args |-> SubsInverse(e.args[i], var, var_inv)])

\* change_term of the earlier replace_inv.  str() prints no 'var**-': a
\* negative exponent is printed as a quotient or in brackets
symopt_replace_inv_term(arg, var, var_inv) ==
  LET denom == fraction_denom(arg)
  IN IF (\E n \in PrintedNames(denom) : StringContains(n, var.name))
          /\ ~PrintsBracket(denom)
       THEN SubsInverse(arg, var, var_inv)
       ELSE arg

\* the earlier replace_inv: new = 0, then the branch of a sum, or of a
\* product; there is no other branch
symopt_replace_inv(expr, var, var_inv) ==
  IF IsAdd(expr)
    THEN AddC([i \in DOMAIN expr.args |->
                 symopt_replace_inv_term(expr.args[i], var, var_inv)])
  ELSE IF IsMul(expr) THEN symopt_replace_inv_term(expr, var, var_inv)
  ELSE Zero

\* unev of the earlier change_term: the roots as UnevaluatedExpr
symopt_unev(var, power) ==
  LET rt2 == Un(Sqrt(var))
      rt4 == Un(Sqrt(Un(Sqrt(var))))
  IN IF is05(power) THEN (IF power = -Half THEN Inverse(Sqrt(var)) ELSE rt2)
     ELSE IF is025(power) THEN (IF power = -Quarter THEN Un(Inverse(rt4)) ELSE rt4)
     ELSE IF power = -ThreeQuarters THEN Un(Inverse(Times(rt4, rt2)))
     ELSE Times(rt4, rt2)

\* change_term of the earlier replace_power_sqrts, given factor, power = ce
symopt_sqrts_change_term_of(arg, var, ce) ==
  IF is05(ce.e) \/ is025(ce.e) \/ is075(ce.e)
    THEN MulC(<<ce.c, symopt_unev(var, ce.e), PowC(var, new_power(ce.e))>>)
    ELSE arg

symopt_sqrts_change_term(arg, var) ==
  symopt_sqrts_change_term_of(arg, var, as_coeff_exponent(arg, var))

\* the earlier replace_power_sqrts: new = 0, then the branch of a sum, or of
\* a product; there is no other branch
symopt_replace_power_sqrts(expr, var) ==
  IF IsAdd(expr)
    THEN AddC([i \in DOMAIN expr.args |-> symopt_sqrts_change_term(expr.args[i], var)])
  ELSE IF IsMul(expr) THEN symopt_sqrts_change_term(expr, var)
  ELSE Zero


(***************************************************************************)
(* The state: the call in progress on the addition-chain module and what   *)
(* it returned; and a call of the expression pipeline, with the locals of  *)
(* optimize_expression as it goes through its steps.                       *)
(***************************************************************************)
VARIABLES
  call,         \* the operation called and its arguments, or the idle record
  result,       \* what the call returned, or NotCalled
  input,        \* the function of optimize_terms called and its arguments
  pc,           \* the step of that function to run next
  var_index,    \* the position in variables of the loop of optimize_expression
  expr,         \* the expression as rewritten so far
  assignments,  \* the symbols of the plan so far
  expressions   \* what each of them stands for

chain_vars == <<call, result>>
pipeline_vars == <<input, pc, var_index, expr, assignments, expressions>>
vars == <<call, result, input, pc, var_index, expr, assignments, expressions>>

Idle == [op |-> "idle", powers |-> <<>>, small_chain_length |-> 0]

\* the arguments drawn for the calls
PowerValues == 1..MaxPower

RECURSIVE ListsUpTo(_)
ListsUpTo(n) ==
  IF n = 0 THEN {<<>>}
  ELSE LET shorter == ListsUpTo(n - 1)
       IN shorter \cup {Append(s, p) : s \in {t \in shorter : Len(t) = n - 1},
                                         p \in PowerValues}

PowerLists == ListsUpTo(MaxLen)

\* the power lists of tests/test_addition_chain.py and of the docstrings
TestPowers == {<<3, 5, 11>>, <<2, 3, 9, 29>>, <<3, 5, 11, 12, 30, 100>>, <<2, 3, 20>>}

\* the calls of the heuristic the tests, the docstrings and the pipeline make
TestHeuristicCalls ==
  {[powers |-> <<3, 5, 11, 12, 30, 100>>, small_chain_length |-> 5],
   [powers |-> <<3, 5, 11>>, small_chain_length |-> 6],
   [powers |-> <<2, 3, 20>>, small_chain_length |-> 0]}

\* the arguments drawn for addition_chain_length: a prefix of the table, the
\* exponents whose chains are tabulated here, and the ends of the table
LengthArguments == ((-1)..(MaxN + 1)) \cup TabulatedKeys \cup {128, 323, 324}

\* powers on both sides of the table of chains, by themselves and among
\* powers that have chains
OutsidePowers == {-1, 0, 1, 1000}
OutsideLists ==
  UNION {{<<p>>, <<p, 3>>, <<5, p>>, <<3, p, 5>>, <<2, 1000, p>>} : p \in OutsidePowers}

\* no call of the pipeline
NoInput == [op |-> "none", expr |-> Zero, variables |-> <<>>, horner |-> TRUE]

PipelineIdle ==
  /\ input = NoInput
  /\ pc = "idle"
  /\ var_index = 1
  /\ expr = Zero
  /\ assignments = <<>>
  /\ expressions = <<>>

InitChains ==
  /\ call = Idle
  /\ result = NotCalled
  /\ PipelineIdle

CallLength(power) ==
  /\ call.op = "idle"
  /\ call' = [op |-> "addition_chain_length", powers |-> <<power>>, small_chain_length |-> 0]
  /\ result' = addition_chain_length(power)
  /\ UNCHANGED pipeline_vars

CallMulti(powers) ==
  /\ call.op = "idle"
  /\ call' = [op |-> "minimum_addition_chain_multi", powers |-> powers,
              small_chain_length |-> 0]
  /\ result' = minimum_addition_chain_multi(powers)
  /\ UNCHANGED pipeline_vars

CallHeuristic(powers, small_chain_length) ==
  /\ call.op = "idle"
  /\ call' = [op |-> "minimum_addition_chain_multi_heuristic", powers |-> powers,
              small_chain_length |-> small_chain_length]
  /\ result' = minimum_addition_chain_multi_heuristic(powers, small_chain_length)
  /\ UNCHANGED pipeline_vars

CallNaive(powers) ==
  /\ call.op = "idle"
  /\ call' = [op |-> "addition_chains_naive_length", powers |-> powers,
              small_chain_length |-> 0]
  /\ result' = addition_chains_naive_length(powers)
  /\ UNCHANGED pipeline_vars

\* assert v == 2, for the first element of every chain
FirstIsTwo(chain) == \A j \in DOMAIN chain : chain[j] = <<>> \/ chain[j][1] = 2

\* assignments, expressions = integer_chain_symbolic_path(chain, var), on the
\* chains that a solver has returned, for the variable x
SymbolicPath ==
  /\ call.op \in {"minimum_addition_chain_multi", "minimum_addition_chain_multi_heuristic"}
  /\ result.st = "ok"
  /\ pc = "idle"
  /\ IF FirstIsTwo(result.steps)
       THEN /\ assignments' = integer_chain_symbolic_path(result.steps, Sym("x"), "").assignments
            /\ expressions' = integer_chain_symbolic_path(result.steps, Sym("x"), "").expressions
            /\ pc' = "path"
       ELSE /\ pc' = "AssertionError"
            /\ UNCHANGED <<assignments, expressions>>
  /\ UNCHANGED <<call, result, input, var_index, expr>>

\* the caller takes the result; the module is ready for the next call
Return ==
  /\ call.op # "idle"
  /\ call' = Idle
  /\ result' = NotCalled
  /\ pc' = "idle"
  /\ assignments' = <<>>
  /\ expressions' = <<>>
  /\ UNCHANGED <<input, var_index, expr>>

NextChains ==
  \/ \E power \in LengthArguments : CallLength(power)
  \/ \E powers \in PowerLists \cup TestPowers \cup OutsideLists : CallMulti(powers)
  \/ \E powers \in PowerLists \cup OutsideLists, k \in 0..MaxSmall : CallHeuristic(powers, k)
  \/ \E c \in TestHeuristicCalls : CallHeuristic(c.powers, c.small_chain_length)
  \/ \E powers \in PowerLists \cup TestPowers \cup OutsideLists : CallNaive(powers)
  \/ SymbolicPath
  \/ Return

SpecChains == InitChains /\ [][NextChains]_vars


(***************************************************************************)
(* The expressions the pipeline is called on: in the variable x, with y a  *)
(* symbol of the coefficients and f a function.                            *)
(***************************************************************************)
VarX == Sym("x")
VarY == Sym("y")

\* quarters and halves, whole numbers, and fractions that are neither
QuarterExponents == {k * Quarter : k \in (-MaxQuarter)..MaxQuarter}
WholeExponents == {2 * Unit, 3 * Unit, -2 * Unit}
OtherExponents == {4, 7, 12, -4, -7}
Exponents == QuarterExponents \cup WholeExponents \cup OtherExponents

\* a single power x**e, and x
Powers == {PowC(VarX, e) : e \in Exponents \ {0}}

\* the terms c * x**e of a sum
Terms == {MulC(<<c, PowC(VarX, e)>>) : c \in {One, VarY}, e \in Exponents}

\* the lists of 2..n terms, no term twice
RECURSIVE TermLists(_)
TermLists(n) ==
  IF n = 0 THEN {<<>>}
  ELSE LET shorter == TermLists(n - 1)
       IN shorter \cup {Append(s, t) : s \in {u \in shorter : Len(u) = n - 1},
                                         t \in Terms}

Sums == {AddC(ts) : ts \in {s \in TermLists(MaxTerms) :
                              Len(s) >= 2 /\ Cardinality(Range(s)) = Len(s)}}

\* a product that is not a term of a sum: y * x**e
Products == {MulC(<<VarY, p>>) : p \in Powers}

\* a product of two bracketed sums: (x**a + 1) * (x**b + 2)
BracketProducts ==
  {MulC(<<AddC(<<p, One>>), AddC(<<q, Num(2)>>)>>) : p \in Powers, q \in Powers}

\* a function of a power as a term of a sum, and as a factor of a product
FunctionSums == {AddC(<<Fun("f", p), t>>) : p \in Powers, t \in Terms}
FunctionProducts == {MulC(<<p, Fun("f", q)>>) : p \in Powers, q \in Powers}

InputExpressions ==
  Powers \cup Sums \cup Products \cup BracketProducts \cup FunctionSums
    \cup FunctionProducts

\* the calls: optimize_expression on the variables [x] and [x, y], with and
\* without horner, and the three rewriting functions on x by themselves
Operations ==
  {[op |-> "optimize_expression", variables |-> vs, horner |-> h] :
     vs \in {<<VarX>>, <<VarX, VarY>>}, h \in BOOLEAN}
  \cup
  {[op |-> op, variables |-> <<VarX>>, horner |-> TRUE] :
     op \in {"replace_power_sqrts", "replace_intpowers", "replace_fracpowers"}}

CallOf(o, e) ==
  [op |-> o.op, expr |-> e, variables |-> o.variables, horner |-> o.horner]

Init ==
  /\ call = Idle
  /\ result = NotCalled
  /\ \E o \in Operations, e \in InputExpressions : input = CallOf(o, e)
  /\ pc = "start"
  /\ var_index = 1
  /\ expr = input.expr
  /\ assignments = <<>>
  /\ expressions = <<>>

\* the variable of the loop, and its inverse symbol
Var == input.variables[var_index]
VarInv == InvSymbol(Var)

\* expr, assign_tmp, expr_tmp = f(...); assignments += assign_tmp;
\* expressions += expr_tmp; and the step to run next
Took(plan, next) ==
  /\ expr' = plan.new
  /\ assignments' = assignments \o plan.assignments
  /\ expressions' = expressions \o plan.expressions
  /\ pc' = next
  /\ UNCHANGED <<call, result, input, var_index>>

\* the same for a function that may raise the KeyError
TookOrRaised(given, next) ==
  IF given.st = "ok" THEN Took(given, next)
  ELSE /\ pc' = "raised"
       /\ UNCHANGED <<call, result, input, var_index, expr, assignments, expressions>>

RECURSIVE simplify_for_all(_, _, _)
simplify_for_all(e, variables, i) ==
  IF i > Len(variables) THEN e
  ELSE simplify_for_all(simplify_powers_as_fractions(e, variables[i]), variables, i + 1)

\* optimize_expression, to its second loop
Simplify ==
  /\ input.op = "optimize_expression"
  /\ pc = "start"
  /\ Took(Plan(simplify_for_all(expr, input.variables, 1), <<>>, <<>>),
          IF input.variables = <<>> THEN "inline" ELSE "replace_inv")

\* optimize_expression_for_var, statement by statement
ReplaceInv ==
  /\ pc = "replace_inv"
  /\ Took(replace_inv(expr, Var), "sqrts")

ReplacePowerSqrts ==
  /\ pc = "sqrts"
  /\ Took(replace_power_sqrts(expr, Var), "sqrts_inv")

ReplacePowerSqrtsInv ==
  /\ pc = "sqrts_inv"
  /\ Took(replace_power_sqrts(expr, VarInv), "horner")

\* if var in expr.free_symbols: expr = horner_expr(expr, var)
horner_if_free(e, var) == IF Has(e, var) THEN horner_expr(e, var) ELSE e

Horner ==
  /\ pc = "horner"
  /\ Took(Plan(IF input.horner THEN horner_if_free(horner_if_free(expr, Var), VarInv)
               ELSE expr, <<>>, <<>>),
          "intpowers")

ReplaceIntpowers ==
  /\ pc = "intpowers"
  /\ TookOrRaised(replace_intpowers(expr, Var), "intpowers_inv")

ReplaceIntpowersInv ==
  /\ pc = "intpowers_inv"
  /\ TookOrRaised(replace_intpowers(expr, VarInv), "fracpowers")

ReplaceFracpowers ==
  /\ pc = "fracpowers"
  /\ TookOrRaised(replace_fracpowers(expr, Var), "fracpowers_inv")

ReplaceFracpowersInv ==
  /\ pc = "fracpowers_inv"
  /\ TookOrRaised(replace_fracpowers(expr, VarInv), "next_var")

\* the second loop of optimize_expression goes to the next variable
NextVariable ==
  /\ pc = "next_var"
  /\ var_index' = var_index + 1
  /\ pc' = IF var_index < Len(input.variables) THEN "replace_inv" ELSE "inline"
  /\ UNCHANGED <<call, result, input, expr, assignments, expressions>>

\* optimize_expression, its last two lines
\* assignments, expressions, expr = plan; return
Returns(plan) ==
  /\ expr' = plan.new
  /\ assignments' = plan.assignments
  /\ expressions' = plan.expressions
  /\ pc' = "returned"
  /\ UNCHANGED <<call, result, input, var_index>>

SingletonInline ==
  /\ pc = "inline"
  /\ Returns(singleton_variables_inline(assignments, expressions, expr))

\* the three rewriting functions called by themselves
CallReplacePowerSqrts ==
  /\ input.op = "replace_power_sqrts"
  /\ pc = "start"
  /\ Took(replace_power_sqrts(expr, Var), "returned")

CallReplaceIntpowers ==
  /\ input.op = "replace_intpowers"
  /\ pc = "start"
  /\ TookOrRaised(replace_intpowers(expr, Var), "returned")

CallReplaceFracpowers ==
  /\ input.op = "replace_fracpowers"
  /\ pc = "start"
  /\ TookOrRaised(replace_fracpowers(expr, Var), "returned")

Next ==
  \/ Simplify
  \/ ReplaceInv
  \/ ReplacePowerSqrts
  \/ ReplacePowerSqrtsInv
  \/ Horner
  \/ ReplaceIntpowers
  \/ ReplaceIntpowersInv
  \/ ReplaceFracpowers
  \/ ReplaceFracpowersInv
  \/ NextVariable
  \/ SingletonInline
  \/ CallReplacePowerSqrts
  \/ CallReplaceIntpowers
  \/ CallReplaceFracpowers

Spec == Init /\ [][Next]_vars

(***************************************************************************)
(* The calls of the earlier package.                                      *)
(***************************************************************************)
\* the expressions the earlier functions are called on: those of the
\* pipeline, a bare symbol, and a function application
SymoptExpressions == InputExpressions \cup {VarX, VarY, Fun("f", VarX)}

\* the calls: the earlier optimize_expression on [x], [x_inv] and on [x, y],
\* [x_inv, y_inv], with and without horner, and the two rewriting functions
\* on x and x_inv by themselves
SymoptOperations ==
  {[op |-> "symopt.optimize_expression", variables |-> vs, horner |-> h] :
     vs \in {<<VarX>>, <<VarX, VarY>>}, h \in BOOLEAN}
  \cup
  {[op |-> op, variables |-> <<VarX>>, horner |-> TRUE] :
     op \in {"symopt.replace_inv", "symopt.replace_power_sqrts"}}

InitSymopt ==
  /\ call = Idle
  /\ result = NotCalled
  /\ \E o \in SymoptOperations, e \in SymoptExpressions : input = CallOf(o, e)
  /\ pc = "start"
  /\ var_index = 1
  /\ expr = input.expr
  /\ assignments = <<>>
  /\ expressions = <<>>

\* expr = f(...), and the step to run next
SymoptTook(new, next) ==
  /\ expr' = new
  /\ pc' = next
  /\ UNCHANGED <<call, result, input, var_index, assignments, expressions>>

\* the earlier optimize_expression_for_var, statement by statement
SymoptReplaceInv ==
  /\ input.op = "symopt.optimize_expression"
  /\ pc = "start"
  /\ SymoptTook(symopt_replace_inv(expr, Var, VarInv), "horner")

SymoptHorner ==
  /\ input.op = "symopt.optimize_expression"
  /\ pc = "horner"
  /\ SymoptTook(IF input.horner THEN horner_expr(horner_expr(expr, Var), VarInv)
                ELSE expr,
                "sqrts")

SymoptReplacePowerSqrts ==
  /\ input.op = "symopt.optimize_expression"
  /\ pc = "sqrts"
  /\ SymoptTook(symopt_replace_power_sqrts(expr, Var), "next_var")

\* for var, var_inv in zip(variables, inverse_variables); return expr
SymoptNextVariable ==
  /\ input.op = "symopt.optimize_expression"
  /\ pc = "next_var"
  /\ var_index' = var_index + 1
  /\ pc' = IF var_index < Len(input.variables) THEN "start" ELSE "returned"
  /\ UNCHANGED <<call, result, input, expr, assignments, expressions>>

\* the two rewriting functions called by themselves
SymoptCallReplaceInv ==
  /\ input.op = "symopt.replace_inv"
  /\ pc = "start"
  /\ SymoptTook(symopt_replace_inv(expr, Var, VarInv), "returned")

SymoptCallReplacePowerSqrts ==
  /\ input.op = "symopt.replace_power_sqrts"
  /\ pc = "start"
  /\ SymoptTook(symopt_replace_power_sqrts(expr, Var), "returned")

NextSymopt ==
  \/ SymoptReplaceInv
  \/ SymoptHorner
  \/ SymoptReplacePowerSqrts
  \/ SymoptNextVariable
  \/ SymoptCallReplaceInv
  \/ SymoptCallReplacePowerSqrts

SpecSymopt == InitSymopt /\ [][NextSymopt]_vars

(***************************************************************************)
(* Reference definitions for the claims on the addition-chain module.      *)
(***************************************************************************)
\* the largest element of a non-empty set of integers
MaxOf(S) == CHOOSE m \in S : \A x \in S : x <= m

\* the least element of a non-empty set of integers
MinOf(S) == CHOOSE m \in S : \A x \in S : m <= x

\* The addition chains 1 = a0 < a1 < ... < ak with elements up to n, as sets:
\* every element after 1 is the sum of two elements before it.
RECURSIVE ChainsOfLength(_, _)
ChainsOfLength(n, k) ==
  IF k = 0 THEN {{1}}
  ELSE UNION {{c \cup {ab[1] + ab[2]} :
                 ab \in {xy \in c \X c : xy[1] + xy[2] > MaxOf(c) /\ xy[1] + xy[2] <= n}}
                : c \in ChainsOfLength(n, k - 1)}

\* the number of multiplications of a shortest way to x^n from x
ShortestChainLength(n) ==
  MinOf({k \in 0..n : \E c \in ChainsOfLength(n, k) : n \in c})

\* every way of choosing one position in each of the lists
RECURSIVE IndexCombinations(_)
IndexCombinations(lists) ==
  IF lists = <<>> THEN {<<>>}
  ELSE {Append(c, j) : c \in IndexCombinations(SubSeq(lists, 1, Len(lists) - 1)),
                       j \in DOMAIN lists[Len(lists)]}

\* the combination at the positions idx
Pick(lists, idx) == [i \in DOMAIN lists |-> lists[i][idx[i]]]

\* the number of distinct integers of the chains of a combination
DistinctIntegers(chains) == Cardinality(UNION {Range(chains[i]) : i \in DOMAIN chains})

\* the least number of distinct integers over the combinations of the lists
SmallestUnion(lists) ==
  MinOf({DistinctIntegers(Pick(lists, idx)) : idx \in IndexCombinations(lists)})

\* the combination met last, in the order of the Cartesian product, among the
\* combinations with the least number of distinct integers
LastSmallest(lists) ==
  LET least == SmallestUnion(lists)
      smallest == {idx \in IndexCombinations(lists) :
                     DistinctIntegers(Pick(lists, idx)) = least}
  IN Pick(lists, CHOOSE idx \in smallest : \A o \in smallest : o = idx \/ ListLess(o, idx))

\* the combination met first among them
FirstSmallest(lists) ==
  LET least == SmallestUnion(lists)
      smallest == {idx \in IndexCombinations(lists) :
                     DistinctIntegers(Pick(lists, idx)) = least}
  IN Pick(lists, CHOOSE idx \in smallest : \A o \in smallest : o = idx \/ ListLess(idx, o))

AllTabulated(powers) == \A i \in DOMAIN powers : IsTabulated(powers[i])

Distinct(powers) == \A i, j \in DOMAIN powers : i # j => powers[i] # powers[j]

CalledMulti == call.op = "minimum_addition_chain_multi"
CalledHeuristic == call.op = "minimum_addition_chain_multi_heuristic"
CalledLength == call.op = "addition_chain_length"

(***************************************************************************)
(* C4: the total returned by minimum_addition_chain_multi is the least     *)
(* number of distinct integers over every way of choosing one tabulated    *)
(* chain per power: some combination has that many and none has fewer; it  *)
(* is 5 for [3,5,11] and 7 for [2,3,9,29].                                 *)
(***************************************************************************)
C4_MultiTotalIsMinimum ==
  (CalledMulti /\ AllTabulated(call.powers)) =>
    LET lists == [i \in DOMAIN call.powers |-> tabulated_addition_chains[call.powers[i]]]
        sizes == {DistinctIntegers(Pick(lists, idx)) : idx \in IndexCombinations(lists)}
    IN /\ result.st = "ok"
       /\ result.length \in sizes
       /\ \A n \in sizes : result.length <= n
       /\ call.powers = <<3, 5, 11>> => result.length = 5
       /\ call.powers = <<2, 3, 9, 29>> => result.length = 7

C4_Witness ==
  /\ CalledMulti
  /\ call.powers = <<2, 3, 9, 29>>
  /\ result.length = 7

HeuristicShape ==
  LET sorted_powers == SortedInts(call.powers)
      k == IF call.small_chain_length < Len(sorted_powers) THEN call.small_chain_length
           ELSE Len(sorted_powers)
      exact == minimum_addition_chain_multi(SubSeq(sorted_powers, 1, k))
  IN /\ result.st = "ok"
     /\ Len(result.steps) = Len(call.powers)
     /\ SubSeq(result.steps, 1, k) = exact.steps
     /\ \A i \in (k + 1)..Len(sorted_powers) :
          /\ result.steps[i] \in Range(tabulated_addition_chains[sorted_powers[i]])
          /\ Head(result.steps[i]) = 2
          /\ result.steps[i][Len(result.steps[i])] = sorted_powers[i]

(***************************************************************************)
(* C7 as stated: for any list of tabulated powers, distinct or not, the    *)
(* heuristic returns one chain per element, in ascending order of the      *)
(* powers: the exact solver's chains for the first small_chain_length      *)
(* powers, then a tabulated chain of each other power.                     *)
(***************************************************************************)
C7_HeuristicOneChainPerElement ==
  (CalledHeuristic /\ AllTabulated(call.powers)) => HeuristicShape

(***************************************************************************)
(* C7 amended: the same for any list of distinct tabulated powers.         *)
(***************************************************************************)
C7_HeuristicOneChainPerPower ==
  (CalledHeuristic /\ AllTabulated(call.powers) /\ Distinct(call.powers)) => HeuristicShape

C7_Witness ==
  /\ CalledHeuristic
  /\ call.powers = <<7, 5, 3>>
  /\ call.small_chain_length = 1
  /\ result.st = "ok"
  /\ Len(result.steps) = 3
  /\ Elements(<<result.steps[2]>>) \cap Elements(<<result.steps[1]>>) # Elements(<<result.steps[2]>>)

(***************************************************************************)
(* C8: for [3,5,11,12,30,100] with small_chain_length = 5 the heuristic    *)
(* returns the total of minimum_addition_chain_multi on the same powers    *)
(* and the chains the test names.                                          *)
(***************************************************************************)
C8_HeuristicTest ==
  (CalledHeuristic /\ call.powers = <<3, 5, 11, 12, 30, 100>> /\ call.small_chain_length = 5) =>
    /\ result.st = "ok"
    /\ result.length = minimum_addition_chain_multi(call.powers).length
    /\ result.steps = << <<2, 3>>, <<2, 3, 5>>, <<2, 3, 5, 6, 11>>, <<2, 3, 6, 12>>,
                         <<2, 3, 6, 12, 24, 30>>, <<2, 3, 6, 12, 24, 48, 50, 100>> >>

C8_Witness ==
  /\ CalledHeuristic
  /\ call.powers = <<3, 5, 11, 12, 30, 100>>
  /\ call.small_chain_length = 5
  /\ result.length = 11

(***************************************************************************)
(* C9: among the combinations with the least number of distinct integers,  *)
(* minimum_addition_chain_multi returns the one met last in the order of   *)
(* the Cartesian product of the candidate lists; the second search of the  *)
(* heuristic returns, for the remaining powers, the original chains of the *)
(* combination met last over its shortened candidate lists.                *)
(***************************************************************************)
C9_LastSmallestWins ==
  /\ (CalledMulti /\ AllTabulated(call.powers)) =>
       result.steps =
         LastSmallest([i \in DOMAIN call.powers |-> tabulated_addition_chains[call.powers[i]]])
  /\ (CalledHeuristic /\ AllTabulated(call.powers)) =>
       LET sorted_powers == SortedInts(call.powers)
           small_power_chain == SmallPowerChain(sorted_powers, call.small_chain_length)
           small == minimum_addition_chain_multi(small_power_chain)
           remaining_powers == RemainingPowers(sorted_powers, small_power_chain)
           final == FinalLengthsOf(remaining_powers, Elements(small.steps))
           last == LastSmallest([i \in DOMAIN final |-> ShortenedChoices(final[i])])
       IN /\ Len(result.steps) = Len(small.steps) + Len(remaining_powers)
          /\ \A i \in DOMAIN remaining_powers :
               /\ Shortened(result.steps[Len(small.steps) + i], Elements(small.steps)) = last[i]
               /\ result.steps[Len(small.steps) + i]
                    \in Range(tabulated_addition_chains[remaining_powers[i]])

\* a call where the first and the last of the smallest combinations differ
C9_Witness ==
  /\ CalledMulti
  /\ call.powers = <<5, 7>>
  /\ result.st = "ok"
  /\ LET lists == [i \in DOMAIN call.powers |-> tabulated_addition_chains[call.powers[i]]]
     IN /\ result.steps = LastSmallest(lists)
        /\ result.steps # FirstSmallest(lists)

(***************************************************************************)
(* C10: minimum_addition_chain_multi returns one chain per power, in the   *)
(* order the powers were given, the i-th a tabulated chain of the i-th     *)
(* power; for no powers it returns (0, []).                                *)
(***************************************************************************)
C10_MultiOneChainPerPower ==
  (CalledMulti /\ AllTabulated(call.powers)) =>
    /\ result.st = "ok"
    /\ Len(result.steps) = Len(call.powers)
    /\ \A i \in DOMAIN call.powers :
         result.steps[i] \in Range(tabulated_addition_chains[call.powers[i]])
    /\ call.powers = <<>> => (result.length = 0 /\ result.steps = <<>>)

C10_Witness ==
  /\ CalledMulti
  /\ call.powers = <<7, 2, 5>>
  /\ result.st = "ok"
  /\ result.steps[1][Len(result.steps[1])] = 7
  /\ result.steps[3][Len(result.steps[3])] = 5

(***************************************************************************)
(* C15: a lookup that fails is surfaced and nothing is returned in its     *)
(* place.  addition_chain_length(n) returns a value exactly for n in       *)
(* 1..323 and raises the KeyError otherwise; minimum_addition_chain_multi  *)
(* and minimum_addition_chain_multi_heuristic raise the KeyError whenever  *)
(* a power asked for is outside 2..999, with 0, 1 and the negative powers, *)
(* and return no part of a result.                                         *)
(***************************************************************************)
C15_LookupFailuresSurface ==
  /\ CalledLength =>
       /\ result.st = "ok" <=> call.powers[1] \in 1..323
       /\ result.st # "ok" => result = KeyError
  /\ (CalledMulti \/ CalledHeuristic) =>
       ((\E i \in DOMAIN call.powers : call.powers[i] \notin 2..999) => result = KeyError)

\* the exact solver was asked for 3, 1000 and 5, and the heuristic for a
\* list with 0 in it
C15_Witness ==
  \/ CalledMulti /\ call.powers = <<3, 1000, 5>> /\ result = KeyError
  \/ CalledHeuristic /\ call.powers = <<5, 0>> /\ result = KeyError

\* a chain for n as the table holds it: increasing, from 2 to n
RunsFromTwoTo(chain, n) ==
  /\ chain # <<>>
  /\ chain[1] = 2
  /\ chain[Len(chain)] = n
  /\ \A i \in 2..Len(chain) : chain[i - 1] < chain[i]

\* every element after the first is its predecessor plus an element of the
\* chain that stands before it, the predecessor included
StepsWithinChain(chain) ==
  \A i \in 2..Len(chain) : \E j \in 1..(i - 1) : chain[i] = chain[i - 1] + chain[j]

\* the same, the 1 that every chain starts from and the table leaves out
\* taken for an earlier element too
StepsWithinChainOrOne(chain) ==
  \A i \in 2..Len(chain) :
    \/ chain[i] = chain[i - 1] + 1
    \/ \E j \in 1..(i - 1) : chain[i] = chain[i - 1] + chain[j]

(***************************************************************************)
(* C18 as stated: every chain that minimum_addition_chain_multi takes from *)
(* the table for a power n is strictly increasing, begins with 2, ends     *)
(* with n, and each element after the first is the element before it plus  *)
(* some earlier element of the same chain.                                 *)
(***************************************************************************)
C18_ChainStepsWithinChain ==
  (CalledMulti /\ AllTabulated(call.powers)) =>
    \A i \in DOMAIN call.powers :
      \A chain \in Range(ThingsToTry(call.powers)[i]) :
        RunsFromTwoTo(chain, call.powers[i]) /\ StepsWithinChain(chain)

(***************************************************************************)
(* C18 amended: every chain that minimum_addition_chain_multi takes from   *)
(* the table for a power n is strictly increasing, begins with 2, ends     *)
(* with n, and each element after the first is the element before it plus  *)
(* an earlier element of the same chain or plus 1, the start of every      *)
(* chain, which the table leaves out.                                      *)
(***************************************************************************)
C18_ChainStepsWithinChainOrOne ==
  (CalledMulti /\ AllTabulated(call.powers)) =>
    \A i \in DOMAIN call.powers :
      \A chain \in Range(ThingsToTry(call.powers)[i]) :
        RunsFromTwoTo(chain, call.powers[i]) /\ StepsWithinChainOrOne(chain)

\* the chains of the test are among those taken for 3, 5, 11, 12, 30, 100
C18_Witness ==
  /\ CalledMulti
  /\ call.powers = <<3, 5, 11, 12, 30, 100>>
  /\ result.st = "ok"
  /\ ThingsToTry(call.powers)[4] = <<<<2, 3, 6, 12>>, <<2, 4, 6, 12>>, <<2, 4, 8, 12>>>>
  /\ <<2, 3, 5, 10, 11>> \in Range(ThingsToTry(call.powers)[3])

CalledNaive == call.op = "addition_chains_naive_length"

\* the sum over the list of what addition_chain_length returns for each power
RECURSIVE SumOfLengths(_)
SumOfLengths(powers) ==
  IF powers = <<>> THEN 0
  ELSE addition_chain_length(Head(powers)).length + SumOfLengths(Tail(powers))

InCostRange(powers) == \A i \in DOMAIN powers : powers[i] \in 2..323

(***************************************************************************)
(* C20: addition_chains_naive_length(powers) returns the sum over the list *)
(* of addition_chain_length(p); and for every list of distinct powers in   *)
(* 2..323 the total that minimum_addition_chain_multi(powers) returns is   *)
(* less than or equal to addition_chains_naive_length(powers).             *)
(***************************************************************************)
C20_NaiveIsSumAndBaseline ==
  /\ (CalledNaive /\ \A i \in DOMAIN call.powers : HasCost(call.powers[i])) =>
       result = Returned(SumOfLengths(call.powers), <<>>)
  /\ (CalledMulti /\ Distinct(call.powers) /\ InCostRange(call.powers)) =>
       /\ result.st = "ok"
       /\ addition_chains_naive_length(call.powers).st = "ok"
       /\ result.length <= addition_chains_naive_length(call.powers).length

\* [3, 5, 11]: 3 + 4 + 6 = 13 by the costs of the powers, 5 with the chains shared
C20_Witness ==
  /\ CalledNaive
  /\ call.powers = <<3, 5, 11>>
  /\ result = Returned(13, <<>>)
  /\ minimum_addition_chain_multi(call.powers).length = 5

\* the integers of the chains that the call returned
ChainElements == UNION {Range(result.steps[j]) : j \in DOMAIN result.steps}

PowerSymbol(v) == make_pow_sym(Sym("x"), v, "")

\* the base symbol and the symbols assigned before position i
AssignedEarlier(i) == {Sym("x")} \cup {assignments[j] : j \in 1..(i - 1)}

\* position i of the plan defines the symbol of v as the product of the
\* symbols of prev and of v - prev, both the base symbol or assigned before
DefinesPower(i, v, prev) ==
  /\ assignments[i] = PowerSymbol(v)
  /\ expressions[i] = Times(Un(PowerSymbol(prev)), PowerSymbol(v - prev))
  /\ PowerSymbol(prev) \in AssignedEarlier(i)
  /\ PowerSymbol(v - prev) \in AssignedEarlier(i)

(***************************************************************************)
(* C23: integer_chain_symbolic_path, given the chains that the heuristic   *)
(* returns for distinct powers, never fails its assertion that a chain     *)
(* begins with 2; it emits each symbol once; it defines 2 as symbol*symbol *)
(* and every later element v as <name><prev>*<name><delta> with            *)
(* prev + delta = v, both factors being the base symbol or a symbol        *)
(* assigned earlier in the list; and every requested power has its symbol  *)
(* in the plan.                                                            *)
(***************************************************************************)
C23_SymbolicPathIsComputable ==
  /\ pc # "AssertionError"
  /\ (CalledHeuristic /\ Distinct(call.powers) /\ pc = "path") =>
       /\ \A i, j \in DOMAIN assignments : assignments[i] = assignments[j] => i = j
       /\ \A i \in DOMAIN assignments :
            \E v \in ChainElements :
              IF v = 2 THEN DefinesPower(i, 2, 1)
              ELSE \E prev \in ChainElements : prev < v /\ DefinesPower(i, v, prev)
       /\ \A k \in DOMAIN call.powers : PowerSymbol(call.powers[k]) \in Range(assignments)

\* the path of the chains of 3, 5, 11, 12, 30, 100: x6 is x5*x, from the
\* chain [2, 3, 5, 6, 11]; the 6 of the chain of 12 is skipped and x12 is x6*x6
C23_Witness ==
  /\ CalledHeuristic
  /\ call.powers = <<3, 5, 11, 12, 30, 100>>
  /\ pc = "path"
  /\ \E i, j \in DOMAIN assignments :
       /\ i < j
       /\ assignments[i] = PowerSymbol(6)
       /\ expressions[i] = Times(Un(PowerSymbol(5)), PowerSymbol(1))
       /\ assignments[j] = PowerSymbol(12)
       /\ expressions[j] = Times(Un(PowerSymbol(6)), PowerSymbol(6))
  /\ Len(assignments) = 11

(***************************************************************************)
(* C25: for distinct tabulated powers the total of the heuristic is never  *)
(* smaller than the total of minimum_addition_chain_multi on the same      *)
(* powers, and it is equal to it whenever the number of powers is at most  *)
(* small_chain_length or small_chain_length is 0.                          *)
(***************************************************************************)
C25_HeuristicNeverBelowExact ==
  (CalledHeuristic /\ AllTabulated(call.powers) /\ Distinct(call.powers)) =>
    /\ result.st = "ok"
    /\ result.length >= minimum_addition_chain_multi(call.powers).length
    /\ (Len(call.powers) <= call.small_chain_length \/ call.small_chain_length = 0)
         => result.length = minimum_addition_chain_multi(call.powers).length

\* the call that replace_intpowers makes, small_chain_length = 0, on three
\* powers given out of order
C25_Witness ==
  /\ CalledHeuristic
  /\ call.powers = <<7, 5, 3>>
  /\ call.small_chain_length = 0
  /\ result.st = "ok"
  /\ result.length = minimum_addition_chain_multi(call.powers).length
  /\ result.length = 4

\* the distinct integers of the chains of the remaining powers that are not
\* in the chains of the first n powers
BeyondSmall(steps, n) ==
  Elements(SubSeq(steps, n + 1, Len(steps))) \ Elements(SubSeq(steps, 1, n))

\* the number of powers that the heuristic gives to the exact solver
SmallCount == Len(SmallPowerChain(SortedInts(call.powers), call.small_chain_length))

(***************************************************************************)
(* C26: for both solvers the total returned is the number of distinct      *)
(* integers in the chains returned; for the heuristic it is small_length,  *)
(* the distinct integers of the chains of the small powers, plus the       *)
(* distinct integers of the remaining chains that are not among them; and  *)
(* it is the number of assignments that integer_chain_symbolic_path emits  *)
(* for those chains.                                                       *)
(***************************************************************************)
C26_TotalCountsDistinctIntegers ==
  /\ (CalledMulti /\ AllTabulated(call.powers)) =>
       /\ result.length = Cardinality(Elements(result.steps))
       /\ pc = "path" => Len(assignments) = result.length
  /\ (CalledHeuristic /\ AllTabulated(call.powers) /\ Distinct(call.powers)) =>
       /\ result.length = Cardinality(Elements(result.steps))
       /\ result.length = Cardinality(Elements(SubSeq(result.steps, 1, SmallCount)))
                            + Cardinality(BeyondSmall(result.steps, SmallCount))
       /\ pc = "path" => Len(assignments) = result.length

\* the path of the chains that the heuristic returned for 3, 5 and 7 with
\* one small power: 2 and 3 from the small part, 5 and 7 beyond it
C26_Witness ==
  /\ CalledHeuristic
  /\ call.powers = <<7, 5, 3>>
  /\ call.small_chain_length = 1
  /\ pc = "path"
  /\ result.length = 4
  /\ Len(assignments) = 4
  /\ Cardinality(BeyondSmall(result.steps, 1)) = 2

(***************************************************************************)
(* What a plan evaluates to.  The assignments are evaluated in list order, *)
(* each in the environment the earlier ones made; a symbol of the plan     *)
(* that is read before it has a value makes the result Undefined.  Values  *)
(* are expanded forms over the original symbols, taken positive, so that   *)
(* (x**a)**b and x**(a*b) are the same value.                              *)
(***************************************************************************)
PlanNames(symbols) == {symbols[i].name : i \in DOMAIN symbols}

Bound(env, name, value) == (name :> value) @@ env

\* the environment after the assignments from position i on, from env
RECURSIVE Environment(_, _, _, _)
Environment(symbols, values, i, env) ==
  IF i > Len(symbols) THEN env
  ELSE Environment(symbols, values, i + 1,
         Bound(env, symbols[i].name, Expand(values[i], env, PlanNames(symbols))))

\* the value of the final expression after the plan
PlanValue(symbols, values, final) ==
  Expand(final, Environment(symbols, values, 1, <<>>), PlanNames(symbols))

\* the value of an expression by itself
ValueOf(e) == Expand(e, <<>>, {})

\* the symbols the expression of position i may refer to: those of the
\* input, and the symbols assigned before i
OriginalSymbols ==
  FreeSymbols(input.expr) \cup {input.variables[i].name : i \in DOMAIN input.variables}
AssignedBefore(i) == {assignments[j].name : j \in 1..(i - 1)}

PlanOperations ==
  {"replace_power_sqrts", "replace_intpowers", "replace_fracpowers", "optimize_expression"}

\* C1: when optimize_expression has returned, evaluating the assignments in
\* list order and then the final expression gives the value of the original
\* expression.
C1_RoundTrip ==
  (input.op = "optimize_expression" /\ pc = "returned")
    => PlanValue(assignments, expressions, expr) = ValueOf(input.expr)

\* C2: in the plan returned by replace_power_sqrts, replace_intpowers,
\* replace_fracpowers or optimize_expression, the expression at position i
\* refers only to symbols of the input and to symbols assigned at positions
\* before i, never to its own symbol or a later one.
C2_NoSelfOrForwardReference ==
  (input.op \in PlanOperations /\ pc = "returned")
    => \A i \in DOMAIN expressions :
         FreeSymbols(expressions[i]) \subseteq OriginalSymbols \cup AssignedBefore(i)

\* C3: no symbol appears twice in the assignments returned by
\* replace_power_sqrts or by optimize_expression.
C3_NoSymbolAssignedTwice ==
  (input.op \in {"replace_power_sqrts", "optimize_expression"} /\ pc = "returned")
    => \A i, j \in DOMAIN assignments : assignments[i] = assignments[j] => i = j

\* C11: singleton_variables_inline removes a symbol from the plan only when
\* the symbol occurs exactly once in the expression it was given and in none
\* of the defining expressions it was given; a symbol that occurs more than
\* once in the expression, or in a defining expression, stays in the plan.
C11_InlineKeepsShared ==
  [][pc = "inline" =>
       \A i \in DOMAIN assignments :
         assignments[i] \notin Range(assignments')
           => /\ Count(expr, assignments[i]) = 1
              /\ CountInAll(expressions, assignments[i]) = 0]_vars

\* optimize_expression has returned with the square root of x written out
\* in the final expression, its symbol xrt2 inlined and out of the plan,
\* while other symbols stay assigned
C11_Witness ==
  /\ input.op = "optimize_expression"
  /\ pc = "returned"
  /\ Count(expr, Sqrt(VarX)) >= 1
  /\ "xrt2" \notin PlanNames(assignments)
  /\ assignments # <<>>

\* the positions of a list that hold x
PositionsOf(list, x) == {i \in DOMAIN list : list[i] = x}

\* C13: when replace_inv has rewritten the expression for a variable, the
\* reciprocal symbol <name>_inv is in the plan exactly once, defined as
\* 1/var, if it occurs in the rewritten expression, and not at all if it
\* does not occur, however many terms or factors were rewritten.
C13_InverseRecordedOnce ==
  pc = "sqrts" =>
    /\ Cardinality(PositionsOf(assignments, VarInv)) = (IF Has(expr, VarInv) THEN 1 ELSE 0)
    /\ \A i \in PositionsOf(assignments, VarInv) : expressions[i] = Inverse(Var)

\* replace_inv has rewritten two or more reciprocal powers, one of them in
\* a factor of a product
C13_Witness ==
  /\ pc = "sqrts"
  /\ IsMul(expr)
  /\ Count(expr, VarInv) >= 2
  /\ Cardinality(PositionsOf(assignments, VarInv)) = 1

\* the exponents of the powers of var written in e
RECURSIVE PowersOf(_, _)
PowersOf(e, var) ==
  (IF IsPow(e) /\ BaseOf(e) = var THEN {ExpOf(e)} ELSE {})
    \cup UNION {PowersOf(e.args[i], var) : i \in DOMAIN e.args}

\* the whole exponents among them, other than 0 and 1
IntegerPowersOf(e, var) ==
  {p \in PowersOf(e, var) : p % Unit = 0 /\ p # 0 /\ p # Unit}

\* e with the symbol that stands for var**p, p in ps, written as var**p again
RECURSIVE Restored(_, _, _)
Restored(e, var, ps) ==
  IF IsSym(e)
    THEN IF \E p \in ps : e = make_pow_sym(var, p \div Unit, "")
           THEN PowC(var, CHOOSE p \in ps : e = make_pow_sym(var, p \div Unit, ""))
           ELSE e
  ELSE IF e.args = <<>> THEN e
  ELSE Rebuilt(e, [i \in DOMAIN e.args |-> Restored(e.args[i], var, ps)])

\* C12: the expression replace_intpowers(expr, var) returns differs from
\* expr only where a power var**p, p a whole exponent other than 0 and 1
\* written in expr, has become the symbol of that power; powers of other
\* symbols, other powers of var and var itself are as they were, and with
\* no whole power of var in expr the expression returned is expr.
C12_OnlyIntegerPowersReplaced ==
  (input.op = "replace_intpowers" /\ pc = "returned")
    => /\ Restored(expr, Var, IntegerPowersOf(input.expr, Var)) = input.expr
       /\ IntegerPowersOf(input.expr, Var) = {} => expr = input.expr

\* replace_intpowers has replaced a whole power of x in an expression that
\* holds another power of x, which is not whole, too
C12_Witness ==
  /\ input.op = "replace_intpowers"
  /\ pc = "returned"
  /\ expr # input.expr
  /\ \E p \in PowersOf(input.expr, VarX) : p % Unit # 0
  /\ \E p \in PowersOf(expr, VarX) : p % Unit # 0

\* the greatest common divisor of a set of whole numbers
RECURSIVE GcdOfSet(_)
GcdOfSet(S) ==
  IF S = {} THEN 0
  ELSE LET a == CHOOSE b \in S : TRUE IN Gcd(a, GcdOfSet(S \ {a}))

\* some power of var in e asks for chain data outside the table: a whole
\* exponent of magnitude above 999, or a multiple above 999 of the greatest
\* exponent that divides them all
OutsideTable(e, var) ==
  \E p \in PowersOf(e, var) :
    \/ Absolute(p) > 999 * Unit
    \/ Absolute(p) \div GcdOfSet(PowersOf(e, var)) > 999

\* C14: optimize_expression fails only when some power of a listed variable
\* asks for chain data outside the tabulated range; with every power inside
\* it, negative whole powers included, the call completes, wherever the
\* power sits: in a term of a sum, in a product, in a function argument.
C14_FailsOnlyOutsideTable ==
  (input.op = "optimize_expression" /\ pc = "raised")
    => \E i \in DOMAIN input.variables : OutsideTable(input.expr, input.variables[i])

\* horner(e, var) raises: e, expanded, is no polynomial in var
HornerRaises(e, var) == ~IsPolynomialIn(ValueOf(e), var)

\* C16: the Horner step of optimize_expression_for_var never raises; when
\* the Horner transform fails on the expression it goes on unmodified; and
\* the transform is applied only for a symbol, the variable and then its
\* reciprocal symbol, that occurs in the expression: with each of the two
\* either absent or failing, the expression is as it was.
C16_HornerFailureLeavesExpression ==
  [][pc = "horner" =>
       /\ pc' = "intpowers"
       /\ (\A s \in {Var, VarInv} : ~Has(expr, s) \/ HornerRaises(expr, s))
            => expr' = expr]_vars

\* the Horner step has run, with horner asked for, on a product of two sums
\* that holds the variable and is no polynomial in it
C16_Witness ==
  /\ pc = "intpowers"
  /\ input.horner
  /\ IsMul(expr)
  /\ Has(expr, Var)
  /\ HornerRaises(expr, Var)
  /\ HornerRaises(expr, VarInv)

\* the exponents of var in e that replace_fracpowers shares a chain for:
\* neither whole nor a multiple of a quarter
FractionalPowersOf(e, var) ==
  {p \in PowersOf(e, var) : p % Unit # 0 /\ Absolute(p) % Quarter # 0}

\* the exponents of var in e with a half or a quarter for remainder
RootPowersOf(e, var) ==
  {p \in PowersOf(e, var) : p % Unit \in {Half, Quarter, ThreeQuarters}}

\* the call has nothing to do
Degenerate ==
  \/ input.op = "replace_fracpowers"
       /\ Cardinality(FractionalPowersOf(input.expr, Var)) <= 1
  \/ input.op = "replace_intpowers" /\ IntegerPowersOf(input.expr, Var) = {}
  \/ input.op = "replace_power_sqrts" /\ RootPowersOf(input.expr, Var) = {}

TermPowers(e, var) ==
  IF IsAdd(e) THEN {as_coeff_exponent(e.args[i], var).e : i \in DOMAIN e.args}
  ELSE IF IsPow(e) THEN {as_coeff_exponent(e, var).e}
  ELSE {}

\* the exponents whose remainder is three quarters, -0.75 aside, which has
\* a symbol of its own
ThreeQuarterPowers(e, var) ==
  {p \in TermPowers(e, var) : p % Unit = ThreeQuarters /\ p # -ThreeQuarters}

\* C21: replace_power_sqrts, over any sequence of terms, returns an
\* expression and a plan that evaluate to the value of the expression it was
\* given, every quarter power var**e being rewritten to a whole power times
\* root symbols whose planned values multiply to var**e; and a term whose
\* exponent has the remainder 0.75 is rewritten with the square-root symbol
\* and the fourth-root symbol, whatever symbols earlier terms have appended.
C21_RootFactoringInAnyOrder ==
  (input.op = "replace_power_sqrts" /\ pc = "returned") =>
    /\ PlanValue(assignments, expressions, expr) = ValueOf(input.expr)
    /\ ThreeQuarterPowers(input.expr, Var) # {} =>
         /\ Has(expr, newvar(Var, 2, ""))
         /\ Has(expr, newvar(Var, 4, ""))

\* a product c/var**k, k = 1, 2, ..., with c free of var
IsInverseProduct(e, var) ==
  /\ IsMul(e)
  /\ as_coeff_exponent(e, var).e < 0
  /\ as_coeff_exponent(e, var).e % Unit = 0
  /\ ~Has(as_coeff_exponent(e, var).c, var)

\* C22: replace_inv applied to a product c/var**k, with k >= 1 and c free of
\* var, returns c*<name>_inv**k, what it makes of the same term inside a
\* sum, and records <name>_inv in the plan.
C22_InverseFoldingOfProducts ==
  [][(pc = "replace_inv" /\ IsInverseProduct(expr, Var)) =>
       /\ expr' = replace_inv_term(expr, Var)
       /\ Has(expr', VarInv)
       /\ ~Has(expr', Var)
       /\ VarInv \in Range(assignments')]_vars

\* replace_fracpowers was called by itself on an expression with two or
\* more fractional exponents to share, all of them positive
SharesPositivePowers ==
  /\ input.op = "replace_fracpowers"
  /\ Cardinality(FractionalPowersOf(input.expr, Var)) >= 2
  /\ \A p \in FractionalPowersOf(input.expr, Var) : p > 0

\* the greatest common divisor of the exponents, in units of 1/Unit
BasePowerOf(e, var) == GcdOfSet(FractionalPowersOf(e, var))

\* the symbol <name>_<denominator> of the base power
BaseSymbolOf(e, var) == Sym(var.name \o SuffixOf(BasePowerOf(e, var)))

\* C24: replace_fracpowers on two or more qualifying positive exponents,
\* with b their greatest common divisor: the plan starts with the base
\* symbol defined as var**b; every other symbol of the plan is defined as a
\* product of two symbols assigned before it; and every qualifying exponent
\* of the expression is replaced by a symbol, the plan and the rewritten
\* expression evaluating to the value of the expression given, also when
\* one of the exponents is b itself and its multiple 1 is left out of the
\* chain request.
C24_FractionalPowersStayAligned ==
  (SharesPositivePowers /\ pc \in {"returned", "raised"}) =>
    /\ pc = "returned"
    /\ assignments[1] = BaseSymbolOf(input.expr, Var)
    /\ expressions[1] = PowC(Var, BasePowerOf(input.expr, Var))
    /\ \A i \in 2..Len(assignments) :
         \E a, b \in {assignments[j] : j \in 1..(i - 1)} :
           expressions[i] = Times(Un(a), b)
    /\ FractionalPowersOf(expr, Var) = {}
    /\ PlanValue(assignments, expressions, expr) = ValueOf(input.expr)

\* the exponents 0.2 and 0.6: the base power is 0.2, the chain is asked for
\* the multiple 3 alone, and x**0.2 is replaced by the base symbol x_5
C24_Witness ==
  /\ SharesPositivePowers
  /\ pc = "returned"
  /\ FractionalPowersOf(input.expr, Var) = {4, 12}
  /\ assignments = <<Sym("x_5"), Sym("x2_5"), Sym("x3_5")>>
  /\ Has(expr, Sym("x_5"))
  /\ Has(expr, Sym("x3_5"))

\* the names of the symbols in the final expression and in the defining
\* expressions that the input did not have: the generated symbols in use
GeneratedInUse(final, values) ==
  (FreeSymbols(final) \cup UNION {FreeSymbols(values[i]) : i \in DOMAIN values})
    \ OriginalSymbols

\* every generated symbol in use has an entry in the plan
Closed(symbols, values, final) == GeneratedInUse(final, values) \subseteq PlanNames(symbols)

\* the entries of a plan, symbol and defining expression
Entries(symbols, values) == [i \in DOMAIN symbols |-> <<symbols[i], values[i]>>]

\* s is t with some of its elements left out
RECURSIVE IsSubsequence(_, _)
IsSubsequence(s, t) ==
  IF s = <<>> THEN TRUE
  ELSE IF t = <<>> THEN FALSE
  ELSE IF Head(s) = Head(t) THEN IsSubsequence(Tail(s), Tail(t))
  ELSE IsSubsequence(s, Tail(t))

\* C27: in the result of optimize_expression every generated symbol that
\* occurs in the final expression or in a retained defining expression has
\* an entry in assignments; singleton inlining removes the entry of a symbol
\* only when the symbol no longer occurs in the expression or in a retained
\* defining expression, and the retained entries keep their relative order.
C27_PlanClosure ==
  [][pc = "inline" =>
       /\ pc' = "returned"
       /\ Closed(assignments', expressions', expr')
       /\ IsSubsequence(Entries(assignments', expressions'),
                        Entries(assignments, expressions))
       /\ \A i \in DOMAIN assignments :
            assignments[i] \notin Range(assignments')
              => /\ Has(expr, assignments[i])
                 /\ ~Has(expr', assignments[i])
                 /\ \A j \in DOMAIN expressions' : ~Has(expressions'[j], assignments[i])]_vars

\* optimize_expression has returned with the fourth root inlined as the
\* square root of xrt2, which stays in the plan for it
C27_Witness ==
  /\ input.op = "optimize_expression"
  /\ pc = "returned"
  /\ Count(expr, Sqrt(Sym("xrt2"))) = 1
  /\ "xrt4" \notin PlanNames(assignments)
  /\ "xrt2" \in PlanNames(assignments)
  /\ Len(assignments) >= 2

\* the symbols the caller of the earlier functions passes for 1/x and 1/y
SymoptInverses == <<InvSymbol(VarX), InvSymbol(VarY)>>
SymoptInverseValues == <<Inverse(VarX), Inverse(VarY)>>

SymoptReturned ==
  /\ input.op \in {"symopt.optimize_expression", "symopt.replace_inv",
                   "symopt.replace_power_sqrts"}
  /\ pc = "returned"

\* C28: when the earlier replace_inv, replace_power_sqrts or
\* optimize_expression has returned, the expression it gives has the value of
\* its input, the reciprocal symbols standing for 1/x and 1/y; and replace_inv
\* and replace_power_sqrts give an input that is neither a sum nor a product
\* back as it is.
C28_LegacyKeepsValue ==
  SymoptReturned =>
    /\ PlanValue(SymoptInverses, SymoptInverseValues, expr) = ValueOf(input.expr)
    /\ (input.op # "symopt.optimize_expression" /\ ~IsAdd(input.expr)
          /\ ~IsMul(input.expr)) => expr = input.expr

=============================================================================
